---- MODULE Spec2Model ----
(***************************************************************************)
(* A model of the vast-rag indexing pipeline: the file hash index          *)
(* (core/hash_index.py), the semantic chunker (core/chunker.py), the       *)
(* dual-collection vector store (core/vector_store.py) and the document    *)
(* indexer that sequences them (indexer.py).                               *)
(*                                                                         *)
(* Eleven specifications share the module:                                 *)
(*   Spec         the indexer: index_file run step by step while the       *)
(*                environment writes and deletes files;                    *)
(*   SpecDir      index_directory looping over index_file, likewise;       *)
(*   SpecTracker  the FileHashIndex API on its own, opened on every kind   *)
(*                of store file;                                           *)
(*   SpecChunk    SemanticChunker.chunk_document applied to bounded        *)
(*                documents under the configurations Config accepts;       *)
(*   SpecEmbed    the EmbeddingService cache (core/embeddings.py) under    *)
(*                encode_text, encode_batch and clear_cache;               *)
(*   SpecStore    ChromaDBManager on its own: add_documents,               *)
(*                delete_by_source and search;                             *)
(*   SpecLoad     the threads of the server reading the lazy property      *)
(*                DocumentIndexer.embedding_service;                       *)
(*   SpecWatch    the debouncing event handler of the file watcher         *)
(*                (core/watcher.py), its timer threads and the callbacks   *)
(*                they run;                                                *)
(*   SpecWatchFair  SpecWatch with the clock advancing and the timer       *)
(*                threads running;                                         *)
(*   SpecAges     the debounce of the event handler in relative time, for  *)
(*                progress under events that never stop;                   *)
(*   SpecShared   EmbeddingService called by the event loop and by the     *)
(*                indexing thread at once, one cache access at a time.     *)
(***************************************************************************)
EXTENDS Integers, Sequences, FiniteSets, TLC

(***************************************************************************)
(* Bounds of the model.                                                    *)
(***************************************************************************)
\* file-system modifications the environment makes in one behaviour
MaxWrites == 2
\* index_file calls started in one behaviour of Spec
MaxCalls == 2
\* index_directory calls started, and modifications the environment makes,
\* in one behaviour of SpecDir
MaxDirCalls == 2
MaxDirWrites == 1
\* chunk_size and chunk_overlap of the indexer's Config, scaled down
CfgChunkSize == 3
CfgChunkOverlap == 1
\* the scaled-down range of Config.chunk_size (ge / le) and the upper end of
\* Config.chunk_overlap (ge is 0); as in config.py the largest overlap is
\* larger than the smallest chunk size
MinChunkSize == 2
MaxChunkSize == 3
MaxChunkOverlap == 3
\* operations on the hash index in one behaviour of SpecTracker
MaxOps == 4

None == "None"

(***************************************************************************)
(* Paths.  A path is named by a short identifier; PathParts gives its      *)
(* components as character sequences, so that str(path), Path.name and     *)
(* Path.suffix are computed as pathlib computes them.                      *)
(***************************************************************************)
Paths == {"p1", "p2", "p3", "p4", "p5"}

PathParts(p) ==
  CASE p = "p1" -> << <<"d">>, <<"V", "a", "s", "t">>, <<"a", ".", "m", "d">> >>
    [] p = "p2" -> << <<"d">>, <<"g">>, <<"a", ".", "m", "d">> >>
    [] p = "p3" -> << <<"d">>, <<"g">>, <<"b", ".", "P", "D", "F">> >>
    [] p = "p4" -> << <<"d">>, <<"g">>, <<"c", ".", "e", "x", "e">> >>
    [] p = "p5" -> << <<"d">>, <<"h">>, <<"a", ".", "m", "d">> >>

\* str.lower() on the characters the model uses
Lower(c) ==
  CASE c = "V" -> "v"
    [] c = "P" -> "p"
    [] c = "D" -> "d"
    [] c = "F" -> "f"
    [] OTHER -> c

LowerStr(s) == [i \in 1..Len(s) |-> Lower(s[i])]

RECURSIVE JoinParts(_)
JoinParts(parts) ==
  IF parts = <<>> THEN <<>>
  ELSE <<"/">> \o Head(parts) \o JoinParts(Tail(parts))

\* str(path): "/d/Vast/a.md"
PathStr(p) == JoinParts(PathParts(p))

\* Path.name: the last component
PathName(p) == PathParts(p)[Len(PathParts(p))]

\* Path.suffix: from the last dot of the name, unless the dot is the first or
\* the last character
PathSuffix(p) ==
  LET name == PathName(p)
      dots == {i \in 1..Len(name) : name[i] = "."}
  IN  IF dots = {} THEN <<>>
      ELSE LET d == CHOOSE i \in dots : \A j \in dots : j <= i
           IN  IF d > 1 /\ d < Len(name) THEN SubSeq(name, d, Len(name)) ELSE <<>>

\* k in s, for strings as character (or token) sequences
Contains(s, k) ==
  \E i \in 1..(Len(s) - Len(k) + 1) : SubSeq(s, i, i + Len(k) - 1) = k

Categories == {"vast-data", "general-tech"}

VastKeywords ==
  << <<"v", "a", "s", "t">>,
     <<"v", "a", "s", "t", "d", "a", "t", "a">>,
     <<"v", "a", "s", "t", "_", "d", "a", "t", "a">>,
     <<"v", "a", "s", "t", "-", "d", "a", "t", "a">> >>

\* the mutant of Categorize: the path is matched as it is written
CategorizeCaseSensitive(p) ==
  IF \E i \in 1..Len(VastKeywords) : Contains(PathStr(p), VastKeywords[i])
  THEN "vast-data"
  ELSE "general-tech"

\* DocumentIndexer.categorize
Categorize(p) ==
  IF \E i \in 1..Len(VastKeywords) : Contains(LowerStr(PathStr(p)), VastKeywords[i])
  THEN "vast-data"
  ELSE "general-tech"

\* Config.allowed_extensions (the default set)
AllowedExtensions ==
  { <<".", "p", "d", "f">>, <<".", "m", "d">>, <<".", "h", "t", "m", "l">>,
    <<".", "d", "o", "c", "x">>, <<".", "t", "x", "t">>, <<".", "p", "y">>,
    <<".", "j", "s">>, <<".", "j", "a", "v", "a">>, <<".", "j", "s", "o", "n">>,
    <<".", "y", "a", "m", "l">> }

ExtensionAllowed(p) == LowerStr(PathSuffix(p)) \in AllowedExtensions

\* the values above for the paths of the model, computed once
NameOf == [p \in Paths |-> PathName(p)]
CategoryOf == [p \in Paths |-> Categorize(p)]
AllowedPath == [p \in Paths |-> ExtensionAllowed(p)]

(***************************************************************************)
(* The file system.  A file is missing, unreadable (open() raises) or      *)
(* holds one of a few contents.                                            *)
(***************************************************************************)
Missing == "Missing"
Unreadable == "Unreadable"

\* L, S, E: UTF-8 text of five, two and zero tokens; X: bytes that are no
\* valid UTF-8 and no PDF; P0: a PDF with no extractable text; P2: a PDF of
\* two pages
Contents == {"L", "S", "E", "X", "P0", "P2"}

FileStates == Contents \cup {Missing, Unreadable}

Exists(f, p) == f[p] # Missing

\* FileHashIndex.compute_hash: SHA-256 of the bytes, taken as collision free
Sha256(c) ==
  CASE c = "L" -> "h_L"
    [] c = "S" -> "h_S"
    [] c = "E" -> "h_E"
    [] c = "X" -> "h_X"
    [] c = "P0" -> "h_P0"
    [] c = "P2" -> "h_P2"

Digests == {Sha256(c) : c \in Contents}

\* compute_hash(path): [exc, hash]; open() raises on a missing or unreadable file
ComputeHash(f, p) ==
  IF f[p] \in Contents
  THEN [exc |-> FALSE, hash |-> Sha256(f[p])]
  ELSE [exc |-> TRUE, hash |-> None]

(***************************************************************************)
(* FileHashIndex (core/hash_index.py).  _index is what json.load returned: *)
(* a dict (map: path -> digest, None where the path is no key) or, for a   *)
(* store file holding a JSON array, a list (elems: the strings in it).     *)
(***************************************************************************)
EmptyMap == [p \in Paths |-> None]

EmptyIndex == [kind |-> "dict", map |-> EmptyMap, elems |-> {}]

\* the store file: absent, a JSON object, a JSON array of strings, another
\* JSON value (null, a number, a boolean), text that is no JSON, or a file
\* that cannot be opened
StoreKinds == {"absent", "object", "array", "scalar", "badjson", "unreadable"}

StoreFileOf(kind, map, elems) == [kind |-> kind, map |-> map, elems |-> elems]

AbsentStore == StoreFileOf("absent", EmptyMap, {})

\* json.dump(self._index, f)
JsonDump(idx) ==
  IF idx.kind = "dict"
  THEN StoreFileOf("object", idx.map, {})
  ELSE StoreFileOf("array", EmptyMap, idx.elems)

\* FileHashIndex._load: the index a new FileHashIndex starts with.  An absent
\* file leaves {}; json.load of an object or an array is assigned to _index
\* and len() of it is logged; len() of any other JSON value raises TypeError
\* inside the try, and that, a JSONDecodeError and an error of open() all
\* end in _index = {}
Load(store) ==
  CASE store.kind = "object" -> [kind |-> "dict", map |-> store.map, elems |-> {}]
    [] store.kind = "array" -> [kind |-> "list", map |-> EmptyMap, elems |-> store.elems]
    [] OTHER -> EmptyIndex

\* FileHashIndex.has_file: str(file_path) in self._index
HasFile(idx, p) ==
  IF idx.kind = "dict" THEN idx.map[p] # None ELSE p \in idx.elems

\* FileHashIndex.get_hash: self._index.get(...); a list has no get
GetHash(idx, p) ==
  IF idx.kind = "dict"
  THEN [exc |-> FALSE, hash |-> idx.map[p]]
  ELSE [exc |-> TRUE, hash |-> None]

\* the mutant of HasChanged: a file that no longer exists counts as unchanged
HasChangedMissingUnchanged(idx, f, p) ==
  IF ~Exists(f, p) THEN [exc |-> FALSE, ret |-> FALSE]
  ELSE IF ~HasFile(idx, p) THEN [exc |-> FALSE, ret |-> TRUE]
  ELSE LET cur == ComputeHash(f, p)
           stored == GetHash(idx, p)
       IN  IF cur.exc \/ stored.exc
           THEN [exc |-> TRUE, ret |-> FALSE]
           ELSE [exc |-> FALSE, ret |-> cur.hash # stored.hash]

\* the mutant of HasChanged: the current hash is compared with the key, not
\* with the stored hash, so every tracked file counts as changed
HasChangedComparesKey(idx, f, p) ==
  IF ~Exists(f, p) THEN [exc |-> FALSE, ret |-> TRUE]
  ELSE IF ~HasFile(idx, p) THEN [exc |-> FALSE, ret |-> TRUE]
  ELSE LET cur == ComputeHash(f, p)
           stored == GetHash(idx, p)
       IN  IF cur.exc \/ stored.exc
           THEN [exc |-> TRUE, ret |-> FALSE]
           ELSE [exc |-> FALSE, ret |-> cur.hash # p]

\* FileHashIndex.has_changed: [exc, ret]
HasChanged(idx, f, p) ==
  IF ~Exists(f, p) THEN [exc |-> FALSE, ret |-> TRUE]
  ELSE IF ~HasFile(idx, p) THEN [exc |-> FALSE, ret |-> TRUE]
  ELSE LET cur == ComputeHash(f, p)
           stored == GetHash(idx, p)
       IN  IF cur.exc \/ stored.exc
           THEN [exc |-> TRUE, ret |-> FALSE]
           ELSE [exc |-> FALSE, ret |-> cur.hash # stored.hash]

\* what open(index_path, "w") and json.dump can do: succeed, fail before the
\* file is touched (mkdir or open raises), or fail after open truncated it
SaveOutcomes == {"ok", "open_fails", "write_fails"}

\* FileHashIndex.save: [idx, store, exc]
Save(idx, store, outcome) ==
  CASE outcome = "ok" -> [idx |-> idx, store |-> JsonDump(idx), exc |-> FALSE]
    [] outcome = "open_fails" -> [idx |-> idx, store |-> store, exc |-> TRUE]
    [] outcome = "write_fails" ->
         [idx |-> idx, store |-> StoreFileOf("badjson", EmptyMap, {}), exc |-> TRUE]

\* the mutant of AddFile: the entry is stored but not saved
AddFileNoSave(idx, store, f, p, outcome) ==
  IF ~Exists(f, p) THEN [idx |-> idx, store |-> store, exc |-> FALSE]
  ELSE LET cur == ComputeHash(f, p)
       IN  IF cur.exc \/ idx.kind # "dict"
           THEN [idx |-> idx, store |-> store, exc |-> TRUE]
           ELSE [idx |-> [idx EXCEPT !.map[p] = cur.hash], store |-> store, exc |-> FALSE]

\* the mutant of AddFile: the hash is computed but not stored
AddFileForgets(idx, store, f, p, outcome) ==
  IF ~Exists(f, p) THEN [idx |-> idx, store |-> store, exc |-> FALSE]
  ELSE LET cur == ComputeHash(f, p)
       IN  IF cur.exc \/ idx.kind # "dict"
           THEN [idx |-> idx, store |-> store, exc |-> TRUE]
           ELSE Save(idx, store, outcome)

\* FileHashIndex.add_file (update_file is add_file): [idx, store, exc].
\* Item assignment on a list raises TypeError.
AddFile(idx, store, f, p, outcome) ==
  IF ~Exists(f, p) THEN [idx |-> idx, store |-> store, exc |-> FALSE]
  ELSE LET cur == ComputeHash(f, p)
       IN  IF cur.exc \/ idx.kind # "dict"
           THEN [idx |-> idx, store |-> store, exc |-> TRUE]
           ELSE Save([idx EXCEPT !.map[p] = cur.hash], store, outcome)

\* FileHashIndex.remove_file: del on a list with a string key raises TypeError
RemoveFile(idx, store, p, outcome) ==
  IF ~HasFile(idx, p) THEN [idx |-> idx, store |-> store, exc |-> FALSE]
  ELSE IF idx.kind # "dict" THEN [idx |-> idx, store |-> store, exc |-> TRUE]
  ELSE Save([idx EXCEPT !.map[p] = None], store, outcome)

\* FileHashIndex.clear: dict.clear() or list.clear(), then save
Clear(idx, store, outcome) ==
  Save([idx EXCEPT !.map = EmptyMap, !.elems = {}], store, outcome)

\* FileHashIndex.list_files: the keys; a list has no keys()
ListFiles(idx) ==
  IF idx.kind = "dict"
  THEN [exc |-> FALSE, files |-> {p \in Paths : idx.map[p] # None}]
  ELSE [exc |-> TRUE, files |-> {}]

(***************************************************************************)
(* Parsers (parsers/factory.py and the parsers it selects).  A text is a   *)
(* sequence of characters.                                                 *)
(***************************************************************************)
\* the text the text-like parsers extract from a content (already stripped)
ContentText(c) ==
  CASE c = "L" -> <<"a", " ", "b", " ", "c", " ", "d", " ", "e">>
    [] c = "S" -> <<"a", " ", "b">>
    [] OTHER -> <<>>

\* the per-page texts PyPDF2 extracts (pages without text are dropped)
ContentPages(c) ==
  CASE c = "P2" -> << <<"a">>, <<"a", " ", "b", " ", "c", " ", "d">> >>
    [] OTHER -> <<>>

\* "\n\n".join(page_texts)
RECURSIVE JoinPages(_)
JoinPages(pages) ==
  IF pages = <<>> THEN <<>>
  ELSE IF Len(pages) = 1 THEN pages[1]
  ELSE pages[1] \o <<"\n", "\n">> \o JoinPages(Tail(pages))

\* ParserFactory.get_parser: the first parser whose can_parse accepts the suffix
ParserFor(p) ==
  LET sfx == LowerStr(PathSuffix(p))
  IN  CASE sfx = <<".", "p", "d", "f">> -> "pdf"
        [] sfx = <<".", "d", "o", "c", "x">> -> "docx"
        [] sfx \in { <<".", "h", "t", "m", "l">>, <<".", "h", "t", "m">> } -> "html"
        [] sfx \in { <<".", "m", "d">>, <<".", "m", "a", "r", "k", "d", "o", "w", "n">> } -> "markdown"
        [] sfx \in { <<".", "t", "x", "t">>, <<".", "p", "y">>, <<".", "j", "s">>,
                     <<".", "j", "a", "v", "a">>, <<".", "j", "s", "o", "n">>,
                     <<".", "y", "a", "m", "l">>, <<".", "y", "m", "l">>,
                     <<".", "s", "h">>, <<".", "b", "a", "s", "h">> } -> "text"
        [] OTHER -> None

ParsedDocumentOf(exc, text, format, name, hasPages, pages) ==
  [exc |-> exc, text |-> text, format |-> format, source_name |-> name,
   sections |-> <<>>, has_page_texts |-> hasPages, page_texts |-> pages]

ParseError(p) == ParsedDocumentOf(TRUE, <<>>, None, PathName(p), FALSE, <<>>)

\* ParserFactory.parse_document on the file as it is now: the ParsedDocument,
\* or exc when get_parser or the parser raises (no parser, a file that is
\* gone or cannot be read, bytes that are no UTF-8, no PDF, no DOCX)
ParseDocument(f, p) ==
  LET c == f[p]
      parser == ParserFor(p)
  IN  IF parser = None \/ c \notin Contents THEN ParseError(p)
      ELSE IF parser = "pdf"
      THEN IF c \in {"P0", "P2"}
           THEN ParsedDocumentOf(FALSE, JoinPages(ContentPages(c)), "pdf",
                                 PathName(p), TRUE, ContentPages(c))
           ELSE ParseError(p)
      ELSE IF parser = "docx" THEN ParseError(p)
      ELSE IF c \in {"L", "S", "E"}
           THEN ParsedDocumentOf(FALSE, ContentText(c), parser, PathName(p), FALSE, <<>>)
           ELSE ParseError(p)

(***************************************************************************)
(* SemanticChunker (core/chunker.py).                                      *)
(***************************************************************************)
Whitespace == {" ", "\n"}

\* where the tokenizer starts a token: at the first character, at white
\* space that follows a word (a token is a word with the space before it),
\* and at a word that follows a line break
TokenStarts(text) ==
  {i \in 1..Len(text) :
     \/ i = 1
     \/ text[i] \in Whitespace /\ text[i - 1] \notin Whitespace
     \/ text[i] \notin Whitespace /\ text[i - 1] = "\n"}

\* tokenizer.encode: the text cut into tokens, each the characters it stands for
Encode(text) ==
  LET starts == TokenStarts(text)
      n == Cardinality(starts)
      StartOf(k) == CHOOSE i \in starts : Cardinality({j \in starts : j < i}) = k - 1
  IN  [k \in 1..n |->
         SubSeq(text, StartOf(k), IF k = n THEN Len(text) ELSE StartOf(k + 1) - 1)]

\* tokenizer.decode: the characters of the tokens, one after the other
RECURSIVE Decode(_)
Decode(tokens) ==
  IF tokens = <<>> THEN <<>> ELSE Head(tokens) \o Decode(Tail(tokens))

\* str.strip()
RECURSIVE StripLeft(_)
StripLeft(s) ==
  IF s # <<>> /\ Head(s) \in Whitespace THEN StripLeft(Tail(s)) ELSE s

RECURSIVE StripRight(_)
StripRight(s) ==
  IF s # <<>> /\ s[Len(s)] \in Whitespace
  THEN StripRight(SubSeq(s, 1, Len(s) - 1))
  ELSE s

Strip(s) == StripRight(StripLeft(s))

\* tokens[start:end] with 0-based bounds as Python slices them: a negative
\* bound counts from the end, and both are clipped to the sequence
SliceBound(n, i) ==
  IF i < 0 THEN (IF n + i < 0 THEN 0 ELSE n + i) ELSE (IF i > n THEN n ELSE i)

Slice(s, start, end) ==
  SubSeq(s, SliceBound(Len(s), start) + 1, SliceBound(Len(s), end))

\* SemanticChunker._find_section: the first header that occurs in the text
FindSection(text, sections) ==
  LET hits == {i \in 1..Len(sections) : Contains(text, sections[i])}
  IN  IF hits = {} THEN <<>>
      ELSE sections[CHOOSE i \in hits : \A j \in hits : i <= j]

\* the vector the sentence-transformer gives a chunk text in the indexer: a
\* function of the text, written as the term it is
SentenceVector(text) == [encode |-> text]

\* EmbeddingService.embed_chunks: zip(chunks, encode_batch(texts))
EmbedChunks(chunks) ==
  [i \in 1..Len(chunks) |-> <<chunks[i], SentenceVector(chunks[i].text)>>]

\* a DocumentChunk; page_number 0 and section <<>> stand for None
DocumentChunk(text, name, category, page, section, index) ==
  [text |-> text,
   metadata |-> [source_file |-> name, category |-> category,
                 page_number |-> page, section |-> section],
   chunk_index |-> index]

\* the result of a chunker run: the chunks, or div when the run never leaves
\* its loop
Chunked(chunks) == [div |-> FALSE, chunks |-> chunks]
Diverges == [div |-> TRUE, chunks |-> <<>>]

\* the while loop of _chunk_text from `start` on.  A loop that is still
\* running after more iterations than there are tokens never ends, because
\* its start no longer advances.
RECURSIVE ChunkLoop(_, _, _, _, _, _, _, _, _)
ChunkLoop(tokens, start, index, name, category, sections, page, cfg, fuel) ==
  IF ~(start < Len(tokens)) THEN Chunked(<<>>)
  ELSE IF fuel = 0 THEN Diverges
  ELSE LET end == start + cfg.chunk_size
           chunk_text == Decode(Slice(tokens, start, end))
           chunk == DocumentChunk(Strip(chunk_text), name, category, page,
                                  FindSection(chunk_text, sections), index)
           rest == ChunkLoop(tokens, end - cfg.chunk_overlap, index + 1, name,
                             category, sections, page, cfg, fuel - 1)
       IN  IF rest.div THEN Diverges ELSE Chunked(<<chunk>> \o rest.chunks)

\* SemanticChunker._chunk_text
ChunkText(text, name, category, sections, page, cfg) ==
  LET tokens == Encode(text)
  IN  IF Len(tokens) <= cfg.chunk_size
      THEN Chunked(<< DocumentChunk(text, name, category, page,
                                    IF sections # <<>> THEN sections[1] ELSE <<>>, 0) >>)
      ELSE ChunkLoop(tokens, 0, 0, name, category, sections, page, cfg,
                     Len(tokens) + 1)

\* the mutant of Renumber: the chunks of a page keep the ordinals
\* _chunk_text gave them
RenumberKeepsPageOrdinals(page_chunks, chunk_index) == page_chunks

\* the `for chunk in page_chunks` loop of _chunk_pdf: the ordinals continue
\* at the running chunk_index
Renumber(page_chunks, chunk_index) ==
  [i \in 1..Len(page_chunks) |->
     [page_chunks[i] EXCEPT !.chunk_index = chunk_index + i - 1]]

\* the `for page_num, page_text in enumerate(page_texts, start=1)` loop of
\* _chunk_pdf from page page_num on; `chunks` is the list so far and
\* chunk_index the running ordinal
RECURSIVE ChunkPages(_, _, _, _, _, _, _, _)
ChunkPages(pages, page_num, chunks, chunk_index, name, category, sections, cfg) ==
  IF page_num > Len(pages) THEN Chunked(chunks)
  ELSE LET page == ChunkText(pages[page_num], name, category, sections,
                             page_num, cfg)
       IN  IF page.div THEN Diverges
           ELSE ChunkPages(pages, page_num + 1,
                           chunks \o Renumber(page.chunks, chunk_index),
                           chunk_index + Len(page.chunks),
                           name, category, sections, cfg)

\* SemanticChunker._chunk_pdf
ChunkPdf(document, category, cfg) ==
  ChunkPages(document.page_texts, 1, <<>>, 0, document.source_name, category,
             document.sections, cfg)

\* SemanticChunker.chunk_document
ChunkDocument(document, category, cfg) ==
  IF document.format = "pdf" /\ document.has_page_texts
  THEN ChunkPdf(document, category, cfg)
  ELSE ChunkText(document.text, document.source_name, category,
                 document.sections, 0, cfg)

(***************************************************************************)
(* ChromaDBManager (core/vector_store.py).  A collection is the set of its *)
(* records; Chroma keeps one record per id.                                *)
(***************************************************************************)
EmptyStore == [c \in Categories |-> {}]

\* ChromaDBManager._get_collection
GetCollection(v, category) ==
  IF category = "vast-data" THEN v["vast-data"] ELSE v["general-tech"]

\* the record _add_to_collection builds for a chunk: the id is
\* "{source_file}_chunk_{chunk_index}", written as the pair it is made of
RecordOf(chunk, embedding, category) ==
  [id |-> <<chunk.metadata.source_file, chunk.chunk_index>>,
   embedding |-> embedding,
   document |-> chunk.text,
   metadata |-> [source_file |-> chunk.metadata.source_file,
                 category |-> category,
                 chunk_index |-> chunk.chunk_index,
                 page_number |-> chunk.metadata.page_number,
                 section |-> chunk.metadata.section]]

\* the metadata of a stored record after an update with new metadata: a key
\* that is given replaces the stored one, a key that is not given stays.
\* _add_to_collection gives page_number and section only when they are set
MergeMetadata(old, new) ==
  [new EXCEPT !.page_number = IF @ # 0 THEN @ ELSE old.page_number,
              !.section = IF @ # <<>> THEN @ ELSE old.section]

\* collection.upsert: a record whose id is new is added, a record whose id
\* is stored is updated: its document and embedding are replaced and its
\* metadata updated key by key
Upsert(coll, records) ==
  {r \in coll : \A n \in records : n.id # r.id}
    \cup {IF \E r \in coll : r.id = n.id
          THEN [n EXCEPT !.metadata =
                  MergeMetadata((CHOOSE r \in coll : r.id = n.id).metadata, @)]
          ELSE n : n \in records}

\* ChromaDBManager._add_to_collection, of a list of <<chunk, embedding>>
AddToCollection(v, chunks_with_embeddings, category) ==
  IF chunks_with_embeddings = <<>> THEN v
  ELSE LET records == {RecordOf(chunks_with_embeddings[i][1],
                                chunks_with_embeddings[i][2], category) :
                         i \in 1..Len(chunks_with_embeddings)}
           key == IF category = "vast-data" THEN "vast-data" ELSE "general-tech"
       IN  [v EXCEPT ![key] = Upsert(@, records)]

\* ChromaDBManager.add_documents: group by the chunks' category, add each group
AddDocuments(v, chunks_with_embeddings) ==
  LET vast_data == SelectSeq(chunks_with_embeddings,
                             LAMBDA c : c[1].metadata.category = "vast-data")
      general_tech == SelectSeq(chunks_with_embeddings,
                                LAMBDA c : c[1].metadata.category # "vast-data")
  IN  AddToCollection(AddToCollection(v, vast_data, "vast-data"),
                      general_tech, "general-tech")

\* the mutant of DeleteBySource: nothing is deleted
DeleteBySourceKeepsAll(v, source_file, category) == v

\* the mutant of DeleteBySource: every record of the collection is deleted
DeleteBySourceClearsCollection(v, source_file, category) ==
  [v EXCEPT ![IF category = "vast-data" THEN "vast-data" ELSE "general-tech"] = {}]

\* ChromaDBManager.delete_by_source: get the ids whose source_file metadata
\* matches, delete them
DeleteBySource(v, source_file, category) ==
  LET key == IF category = "vast-data" THEN "vast-data" ELSE "general-tech"
      ids == {r.id : r \in {x \in GetCollection(v, category) :
                              x.metadata.source_file = source_file}}
  IN  IF ids # {} THEN [v EXCEPT ![key] = {r \in @ : r.id \notin ids}] ELSE v

\* ChromaDBManager.get_collection_count
GetCollectionCount(v, category) == Cardinality(GetCollection(v, category))

(***************************************************************************)
(* Sorted paths: Python orders Path objects by their components, each      *)
(* compared as a string, character by character.                           *)
(***************************************************************************)
\* ord() of the characters the paths use
Ord(c) ==
  CASE c = "." -> 46 [] c = "D" -> 68 [] c = "F" -> 70 [] c = "P" -> 80
    [] c = "V" -> 86 [] c = "a" -> 97 [] c = "b" -> 98 [] c = "c" -> 99
    [] c = "d" -> 100 [] c = "e" -> 101 [] c = "g" -> 103 [] c = "h" -> 104
    [] c = "m" -> 109 [] c = "s" -> 115 [] c = "t" -> 116 [] c = "x" -> 120

\* s < t for strings
RECURSIVE StrLess(_, _)
StrLess(s, t) ==
  IF t = <<>> THEN FALSE
  ELSE IF s = <<>> THEN TRUE
  ELSE IF Ord(Head(s)) # Ord(Head(t)) THEN Ord(Head(s)) < Ord(Head(t))
  ELSE StrLess(Tail(s), Tail(t))

\* a < b for tuples of strings
RECURSIVE PartsLess(_, _)
PartsLess(a, b) ==
  IF b = <<>> THEN FALSE
  ELSE IF a = <<>> THEN TRUE
  ELSE IF Head(a) # Head(b) THEN StrLess(Head(a), Head(b))
  ELSE PartsLess(Tail(a), Tail(b))

PathLess(p, q) == PartsLess(PathParts(p), PathParts(q))

\* sorted(...) of a set of paths
RECURSIVE SortedPaths(_)
SortedPaths(S) ==
  IF S = {} THEN <<>>
  ELSE LET m == CHOOSE x \in S : \A y \in S \ {x} : PathLess(x, y)
       IN  <<m>> \o SortedPaths(S \ {m})

(***************************************************************************)
(* State.                                                                  *)
(***************************************************************************)
VARIABLES
  fs,       \* the file system: path -> content, Missing or Unreadable
  hidx,     \* FileHashIndex._index
  hstore,   \* the store file of the hash index (.file_hashes.json)
  vs,       \* the vector store: category -> records
  call,     \* the index_file call in flight: its position and locals
  dir,      \* the index_directory call in flight: its position and locals
  snap,     \* vs, hidx and hstore as they were when the call in flight began
  last,     \* the index_file call that returned before the one in flight
  dirty,    \* the environment modified that call's file since it returned
  writes,   \* modifications made by the environment so far
  calls,    \* calls started so far
  op,       \* SpecTracker: the operation on the hash index that ran last
  clean,    \* SpecTracker: paths recorded and neither modified nor removed since
  ck,       \* SpecChunk: the document, the configuration, the chunks returned
  es,       \* SpecEmbed: EmbeddingService._cache and the call that ran last
  sr,       \* SpecStore: the store operation or search that ran last
  lz,       \* SpecLoad: DocumentIndexer._embedding_service and its readers
  wt        \* SpecWatch: the watcher's event handler, its timers, the clock

vars == <<fs, hidx, hstore, vs, call, dir, snap, last, dirty, writes, calls,
          op, clean, ck, es, sr, lz, wt>>

\* the indexer's configuration
Cfg == [chunk_size |-> CfgChunkSize, chunk_overlap |-> CfgChunkOverlap]

(***************************************************************************)
(* DocumentIndexer.index_file (indexer.py), one step at a time.            *)
(***************************************************************************)
\* the mutant of IndexFileSteps: the old records are deleted before the
\* file is parsed
IndexFileStepsDeleteFirst == <<"delete", "parse", "embed", "upsert", "record">>

\* the mutant of IndexFileSteps: the hash is recorded before the old records
\* are deleted
IndexFileStepsRecordFirst == <<"parse", "embed", "record", "delete", "upsert">>

\* the statements of the try body of index_file that touch the file, the
\* embedding model or a store, in the order they run: parse and chunk,
\* embed, delete the old records, upsert the new ones, record the hash
IndexFileSteps == <<"parse", "embed", "delete", "upsert", "record">>

\* the mutant of TrySteps: the hash is recorded after the try block
TryStepsWithoutRecord == {"parse", "embed", "delete", "upsert"}

\* the steps inside `try: ... except Exception: return False`
TrySteps == {"parse", "embed", "delete", "upsert", "record"}

IdleCall ==
  [pc |-> "idle", path |-> None, caller |-> None, chunks |-> <<>>,
   exit |-> None, result |-> None, raised |-> None, seen |-> None,
   recorded |-> None, modified |-> FALSE, empty |-> FALSE, checked |-> None]

NoCall == [path |-> None, result |-> None, vast |-> 0, general |-> 0]

NoSnap == [vs |-> EmptyStore, hidx |-> EmptyIndex, hstore |-> AbsentStore]

\* what the caller of index_file gets
Return(c, exit, result) ==
  [c EXCEPT !.pc = "returned", !.exit = exit, !.result = result]

\* an exception raised at `step`: caught inside the try, propagated outside
Raise(c, step) ==
  [Return(c, step, IF step \in TrySteps THEN "False" ELSE "raise")
     EXCEPT !.raised = step]

\* after `step` has completed: the next step, or `return True`
Advance(c, step) ==
  LET i == CHOOSE k \in 1..Len(IndexFileSteps) : IndexFileSteps[k] = step
  IN  IF i = Len(IndexFileSteps)
      THEN Return(c, "done", "True")
      ELSE [c EXCEPT !.pc = IndexFileSteps[i + 1]]

\* the three guards before the try: the file exists, its extension is
\* allowed, has_changed says it changed
Guards(c, f, idx) ==
  IF ~Exists(f, c.path) THEN Return(c, "missing", "False")
  ELSE IF ~AllowedPath[c.path] THEN Return(c, "ext", "False")
  ELSE LET hc == HasChanged(idx, f, c.path)
       IN  IF hc.exc THEN Raise(c, "check")
           ELSE IF ~hc.ret THEN Return(c, "unchanged", "False")
           ELSE [c EXCEPT !.pc = IndexFileSteps[1]]

Summary(c, v) ==
  [path |-> c.path, result |-> c.result,
   vast |-> GetCollectionCount(v, "vast-data"),
   general |-> GetCollectionCount(v, "general-tech")]

\* bookkeeping of the observers: a call that returns learns whether the file
\* of the call before it was modified since that call returned
Observe(c) ==
  IF c.pc = "returned"
  THEN /\ call' = [c EXCEPT !.modified = dirty]
       /\ dirty' = FALSE
  ELSE /\ call' = c
       /\ dirty' = dirty

\* the caller has the result: the call becomes the one before the next
Collected ==
  /\ call' = IdleCall
  /\ last' = Summary(call, vs)
  /\ snap' = NoSnap

\* index_file(p) is entered and runs its guards
Enter(p, caller) ==
  /\ call.pc = "idle"
  /\ Observe(Guards([IdleCall EXCEPT !.path = p, !.caller = caller,
                                      !.checked = fs[p]], fs, hidx))
  /\ snap' = [vs |-> vs, hidx |-> hidx, hstore |-> hstore]

\* a direct call of index_file: a watcher dispatch (handle_file_event) or a test
IndexFileCall(p) ==
  /\ calls < MaxCalls
  /\ calls' = calls + 1
  /\ Enter(p, "direct")
  /\ UNCHANGED <<fs, hidx, hstore, vs, dir, last, writes, op, clean, ck, es, sr, lz, wt>>

\* the direct caller takes the result
IndexFileDone ==
  /\ call.pc = "returned"
  /\ call.caller = "direct"
  /\ Collected
  /\ UNCHANGED <<fs, hidx, hstore, vs, dir, dirty, writes, calls, op, clean, ck, es, sr, lz, wt>>

\* the chunks of every path with every content, computed once
Parsed ==
  [p \in Paths |-> [c \in FileStates |->
     LET doc == ParseDocument([q \in Paths |-> c], p)
     IN  [exc |-> doc.exc,
          empty |-> ~doc.exc /\ doc.text = <<>>,
          ch |-> IF doc.exc THEN Diverges ELSE ChunkDocument(doc, CategoryOf[p], Cfg)]]]

\* 1. parse, 2. chunk
StepParse ==
  /\ call.pc = "parse"
  /\ LET r == Parsed[call.path][fs[call.path]]
         c == [call EXCEPT !.empty = r.empty]
     IN  Observe(IF r.exc THEN Raise(c, "parse")
                 ELSE IF r.ch.div THEN [c EXCEPT !.pc = "hung"]
                 ELSE IF r.ch.chunks = <<>> THEN Return(c, "nochunks", "False")
                 ELSE Advance([c EXCEPT !.chunks = r.ch.chunks], "parse"))
  /\ UNCHANGED <<fs, hidx, hstore, vs, dir, snap, last, writes, calls, op, clean, ck, es, sr, lz, wt>>

\* 3. embed: the model may fail to load or to encode
StepEmbed ==
  /\ call.pc = "embed"
  /\ \E ok \in BOOLEAN :
       Observe(IF ok THEN Advance(call, "embed") ELSE Raise(call, "embed"))
  /\ UNCHANGED <<fs, hidx, hstore, vs, dir, snap, last, writes, calls, op, clean, ck, es, sr, lz, wt>>

\* 4. delete the old records of the source; the store may raise
StepDelete ==
  /\ call.pc = "delete"
  /\ \E ok \in BOOLEAN :
       IF ok
       THEN /\ vs' = DeleteBySource(vs, NameOf[call.path], CategoryOf[call.path])
            /\ Observe(Advance(call, "delete"))
       ELSE /\ vs' = vs
            /\ Observe(Raise(call, "delete"))
  /\ UNCHANGED <<fs, hidx, hstore, dir, snap, last, writes, calls, op, clean, ck, es, sr, lz, wt>>

\* 5. store the new records; the store may raise
StepUpsert ==
  /\ call.pc = "upsert"
  /\ \E ok \in BOOLEAN :
       IF ok
       THEN /\ vs' = AddDocuments(vs, EmbedChunks(call.chunks))
            /\ Observe(Advance(call, "upsert"))
       ELSE /\ vs' = vs
            /\ Observe(Raise(call, "upsert"))
  /\ UNCHANGED <<fs, hidx, hstore, dir, snap, last, writes, calls, op, clean, ck, es, sr, lz, wt>>

\* 6. hash_index.update_file
StepRecord ==
  /\ call.pc = "record"
  /\ \E outcome \in SaveOutcomes :
       LET r == AddFile(hidx, hstore, fs, call.path, outcome)
           c == [call EXCEPT !.seen = fs[call.path],
                             !.recorded = IF ~r.exc /\ Exists(fs, call.path)
                                          THEN r.idx.map[call.path] ELSE None]
       IN  /\ hidx' = r.idx
           /\ hstore' = r.store
           /\ Observe(IF r.exc THEN Raise(c, "record") ELSE Advance(c, "record"))
  /\ UNCHANGED <<fs, vs, dir, snap, last, writes, calls, op, clean, ck, es, sr, lz, wt>>

(***************************************************************************)
(* DocumentIndexer.index_directory (indexer.py).                           *)
(***************************************************************************)
NoStats == [total |-> 0, indexed |-> 0, skipped |-> 0, errors |-> 0]

IdleDir ==
  [pc |-> "idle", queue |-> <<>>, stats |-> NoStats, listed |-> <<>>,
   visited |-> <<>>, outcomes |-> <<>>,
   passed |-> <<>>,   \* the paths index_file was called with, in order
   nofile |-> {}]     \* the entries that were no file when the loop came to them

\* the mutant of DirAfterFile: an exception of index_file is not handled and
\* ends index_directory
DirAfterFileAborts(d, result) ==
  CASE result = "True" -> [d EXCEPT !.stats.indexed = @ + 1]
    [] result = "False" -> [d EXCEPT !.stats.skipped = @ + 1]
    [] OTHER -> [d EXCEPT !.pc = "raised", !.queue = <<>>]

\* the mutant of DirAfterFile: a file index_file returned False for is
\* counted in no bucket
DirAfterFileDropsSkipped(d, result) ==
  CASE result = "True" -> [d EXCEPT !.stats.indexed = @ + 1]
    [] result = "False" -> d
    [] OTHER -> [d EXCEPT !.stats.errors = @ + 1]

\* the try / except around index_file in the loop of index_directory
DirAfterFile(d, result) ==
  CASE result = "True" -> [d EXCEPT !.stats.indexed = @ + 1]
    [] result = "False" -> [d EXCEPT !.stats.skipped = @ + 1]
    [] OTHER -> [d EXCEPT !.stats.errors = @ + 1]

\* index_directory() is called: sorted(root.rglob("*")) lists what is there now
DirStart ==
  /\ dir.pc = "idle"
  /\ call.pc = "idle"
  /\ calls < MaxDirCalls
  /\ calls' = calls + 1
  /\ LET listing == SortedPaths({p \in Paths : Exists(fs, p)})
     IN  dir' = [IdleDir EXCEPT !.pc = "loop", !.queue = listing, !.listed = listing]
  /\ UNCHANGED <<fs, hidx, hstore, vs, call, snap, last, dirty, writes, op, clean, ck, es, sr, lz, wt>>

\* one iteration of the loop up to the call of index_file: entries that are
\* no file (any more) or have no allowed extension are passed over
DirNext ==
  /\ dir.pc = "loop"
  /\ call.pc = "idle"
  /\ dir.queue # <<>>
  /\ LET p == Head(dir.queue)
         d == [dir EXCEPT !.queue = Tail(@), !.visited = Append(@, p)]
     IN  IF ~Exists(fs, p) \/ ~AllowedPath[p]
         THEN /\ dir' = [d EXCEPT !.nofile = IF Exists(fs, p) THEN @
                                             ELSE @ \cup {p}]
              /\ UNCHANGED <<call, snap, dirty>>
         ELSE /\ dir' = [d EXCEPT !.stats.total = @ + 1,
                                  !.passed = Append(@, p)]
              /\ Enter(p, "dir")
  /\ UNCHANGED <<fs, hidx, hstore, vs, last, writes, calls, op, clean, ck, es, sr, lz, wt>>

\* index_file has returned or raised inside the loop
DirCollect ==
  /\ dir.pc = "loop"
  /\ call.pc = "returned"
  /\ call.caller = "dir"
  /\ dir' = [DirAfterFile(dir, call.result) EXCEPT !.outcomes = Append(@, call.result)]
  /\ Collected
  /\ UNCHANGED <<fs, hidx, hstore, vs, dirty, writes, calls, op, clean, ck, es, sr, lz, wt>>

\* the loop is over: return stats
DirReturn ==
  /\ dir.pc = "loop"
  /\ call.pc = "idle"
  /\ dir.queue = <<>>
  /\ dir' = [dir EXCEPT !.pc = "done"]
  /\ UNCHANGED <<fs, hidx, hstore, vs, call, snap, last, dirty, writes, calls,
                 op, clean, ck, es, sr, lz, wt>>

\* the caller of index_directory has the stats
DirDone ==
  /\ dir.pc = "done"
  /\ dir' = IdleDir
  /\ UNCHANGED <<fs, hidx, hstore, vs, call, snap, last, dirty, writes, calls,
                 op, clean, ck, es, sr, lz, wt>>

(***************************************************************************)
(* The environment: files are written, deleted or made unreadable at any   *)
(* time, also while a call is in flight.                                   *)
(***************************************************************************)
\* what the environment does to a path
Writable(p) ==
  CASE p = "p1" -> {}
    [] p = "p2" -> {"L", "S", "X", Missing, Unreadable}
    [] p = "p3" -> {"P0"}
    [] p = "p4" -> {}
    [] p = "p5" -> {"E"}

\* the file whose modification the next return has to know of
WatchedPath == IF call.pc = "returned" THEN call.path ELSE last.path

Modify(p, c) ==
  /\ c \in Writable(p)
  /\ c # fs[p]
  /\ fs' = [fs EXCEPT ![p] = c]
  /\ dirty' = (dirty \/ p = WatchedPath)
  /\ writes' = writes + 1
  /\ UNCHANGED <<hidx, hstore, vs, call, dir, snap, last, calls, op, clean, ck, es, sr, lz, wt>>

EnvWrite(p, c) == writes < MaxWrites /\ Modify(p, c)

EnvWriteDir(p, c) == writes < MaxDirWrites /\ Modify(p, c)

InitFiles ==
  [p \in Paths |->
     CASE p = "p1" -> "L" [] p = "p2" -> "L" [] p = "p3" -> "P2"
       [] p = "p4" -> "S" [] p = "p5" -> "S"]

NoOp == [name |-> None, path |-> None, exc |-> FALSE, ret |-> FALSE, outcome |-> None,
         acted |-> FALSE]
NoChunking == [pc |-> "off"]
NoService == [pc |-> "off"]
NoSearch == [pc |-> "off"]
NoLoad == [pc |-> "off"]
NoWatch == [pc |-> "off"]

\* a DocumentIndexer constructed on an empty data directory
Init ==
  /\ fs = InitFiles
  /\ hstore = AbsentStore
  /\ hidx = Load(AbsentStore)
  /\ vs = EmptyStore
  /\ call = IdleCall
  /\ dir = IdleDir
  /\ snap = NoSnap
  /\ last = NoCall
  /\ dirty = FALSE
  /\ writes = 0
  /\ calls = 0
  /\ op = NoOp
  /\ clean = {}
  /\ ck = NoChunking
  /\ es = NoService
  /\ sr = NoSearch
  /\ lz = NoLoad
  /\ wt = NoWatch

Next ==
  \/ \E p \in Paths : IndexFileCall(p)
  \/ IndexFileDone
  \/ StepParse
  \/ StepEmbed
  \/ StepDelete
  \/ StepUpsert
  \/ StepRecord
  \/ \E p \in Paths, c \in FileStates : EnvWrite(p, c)

Spec == Init /\ [][Next]_vars

NextDir ==
  \/ DirStart
  \/ DirNext
  \/ StepParse
  \/ StepEmbed
  \/ StepDelete
  \/ StepUpsert
  \/ StepRecord
  \/ DirCollect
  \/ DirReturn
  \/ DirDone
  \/ \E p \in Paths, c \in FileStates : EnvWriteDir(p, c)

SpecDir == Init /\ [][NextDir]_vars

(***************************************************************************)
(* SemanticChunker on its own (SpecChunk): chunk_document is called once   *)
(* on a document, under a configuration Config accepts.                    *)
(***************************************************************************)
ChunkTexts ==
  { <<>>,
    <<"a">>,
    <<"a", " ", "b">>,
    <<"a", " ", "b", " ", "c", " ", "d">>,
    <<"#", " ", "a", " ", "b", " ", "c", " ", "d", " ", "e">>,
    <<" ", "a", " ", "b", " ", "c", "\n">> }

ChunkPageLists ==
  { <<>>,
    << <<"a">> >>,
    << <<"a">>, <<>> >>,
    << <<"a", " ", "b", " ", "c", " ", "d">>, <<"a">> >>,
    << <<"a">>, <<"#", " ", "a", " ", "b", " ", "c", " ", "d", " ", "e">>, <<"b", " ", "c">> >> }

ChunkSections == { <<>>, << <<"#">> >>, << <<"d">>, <<"b">> >> }

\* the documents the parsers hand over: a PDF carries its page texts
ChunkDocs ==
  { [text |-> t, format |-> f, source_name |-> <<"a", ".", "m", "d">>,
     sections |-> sec, has_page_texts |-> FALSE, page_texts |-> <<>>] :
       t \in ChunkTexts, f \in {"text", "markdown"}, sec \in ChunkSections }
  \cup
  { [text |-> JoinPages(pg), format |-> "pdf", source_name |-> <<"b", ".", "P", "D", "F">>,
     sections |-> <<>>, has_page_texts |-> TRUE, page_texts |-> pg] :
       pg \in ChunkPageLists }

\* Config sets no relation between chunk_size and chunk_overlap
ChunkCfgs ==
  [chunk_size : MinChunkSize..MaxChunkSize, chunk_overlap : 0..MaxChunkOverlap]

\* the values Config may be constructed with: also ones out of its ranges
RequestedCfgs ==
  [chunk_size : (MinChunkSize - 1)..(MaxChunkSize + 1),
   chunk_overlap : (0 - 1)..(MaxChunkOverlap + 1)]

\* Config(chunk_size=..., chunk_overlap=...): pydantic checks each field
\* against its ge and le and raises a ValidationError when one fails
ConfigAccepts(cfg) ==
  /\ MinChunkSize <= cfg.chunk_size /\ cfg.chunk_size <= MaxChunkSize
  /\ 0 <= cfg.chunk_overlap /\ cfg.chunk_overlap <= MaxChunkOverlap

InitChunk ==
  /\ fs = InitFiles
  /\ hstore = AbsentStore
  /\ hidx = Load(AbsentStore)
  /\ vs = EmptyStore
  /\ call = IdleCall
  /\ dir = IdleDir
  /\ snap = NoSnap
  /\ last = NoCall
  /\ dirty = FALSE
  /\ writes = 0
  /\ calls = 0
  /\ op = NoOp
  /\ clean = {}
  /\ ck \in [pc : {"new"}, document : ChunkDocs, category : Categories,
             cfg : RequestedCfgs, chunks : {<<>>}]
  /\ es = NoService
  /\ sr = NoSearch
  /\ lz = NoLoad
  /\ wt = NoWatch

\* Config is constructed, then SemanticChunker from its two fields
ConfigCall ==
  /\ ck.pc = "new"
  /\ ck' = [ck EXCEPT !.pc = IF ConfigAccepts(ck.cfg) THEN "ready" ELSE "rejected"]
  /\ UNCHANGED <<fs, hidx, hstore, vs, call, dir, snap, last, dirty, writes,
                 calls, op, clean, es, sr, lz, wt>>

\* chunk_document(document, category): it returns the chunks, or never returns
ChunkCall ==
  /\ ck.pc = "ready"
  /\ LET r == ChunkDocument(ck.document, ck.category, ck.cfg)
     IN  ck' = [ck EXCEPT !.pc = IF r.div THEN "hung" ELSE "done",
                          !.chunks = r.chunks]
  /\ UNCHANGED <<fs, hidx, hstore, vs, call, dir, snap, last, dirty, writes,
                 calls, op, clean, es, sr, lz, wt>>

NextChunk == ConfigCall \/ ChunkCall

SpecChunk == InitChunk /\ [][NextChunk]_vars

(***************************************************************************)
(* FileHashIndex on its own (SpecTracker): a client constructs the index   *)
(* on whatever store file it finds and calls its methods, while the        *)
(* environment writes the tracked files.                                   *)
(***************************************************************************)
TrackerPaths == {"p2", "p3"}

\* the store files a FileHashIndex may find
InitStores ==
  {StoreFileOf(k, EmptyMap, {}) : k \in {"absent", "object", "scalar", "badjson", "unreadable"}}
    \cup {StoreFileOf("object", [EmptyMap EXCEPT !["p2"] = h], {}) : h \in {"h_L", "h_S"}}
    \cup {StoreFileOf("array", EmptyMap, e) : e \in {{}, {"p2"}}}

\* the operation that ran last: what it raised or returned, what its save
\* did, and whether it had something to store or remove
OpOf(name, p, exc, ret, outcome, acted) ==
  [name |-> name, path |-> p, exc |-> exc, ret |-> ret, outcome |-> outcome,
   acted |-> acted]

\* FileHashIndex(index_path)
InitTracker ==
  /\ fs = InitFiles
  /\ hstore \in InitStores
  /\ hidx = Load(hstore)
  /\ vs = EmptyStore
  /\ call = IdleCall
  /\ dir = IdleDir
  /\ snap = NoSnap
  /\ last = NoCall
  /\ dirty = FALSE
  /\ writes = 0
  /\ calls = 0
  /\ op = OpOf("open", None, FALSE, FALSE, None, FALSE)
  /\ clean = {}
  /\ ck = NoChunking
  /\ es = NoService
  /\ sr = NoSearch
  /\ lz = NoLoad
  /\ wt = NoWatch

TrackerFrame == UNCHANGED <<vs, call, dir, snap, last, dirty, writes, ck, es, sr, lz, wt>>

\* add_file(p) or update_file(p)
AddFileOp(p) ==
  /\ calls < MaxOps
  /\ \E name \in {"add_file", "update_file"}, outcome \in SaveOutcomes :
       LET r == AddFile(hidx, hstore, fs, p, outcome)
       IN  /\ hidx' = r.idx
           /\ hstore' = r.store
           /\ op' = OpOf(name, p, r.exc, FALSE, outcome, Exists(fs, p))
           /\ clean' = IF Exists(fs, p) /\ ~r.exc THEN clean \cup {p} ELSE clean
  /\ calls' = calls + 1
  /\ UNCHANGED fs
  /\ TrackerFrame

\* remove_file(p)
RemoveFileOp(p) ==
  /\ calls < MaxOps
  /\ \E outcome \in SaveOutcomes :
       LET r == RemoveFile(hidx, hstore, p, outcome)
       IN  /\ hidx' = r.idx
           /\ hstore' = r.store
           /\ op' = OpOf("remove_file", p, r.exc, FALSE, outcome, HasFile(hidx, p))
  /\ clean' = clean \ {p}
  /\ calls' = calls + 1
  /\ UNCHANGED fs
  /\ TrackerFrame

\* clear()
ClearOp ==
  /\ calls < MaxOps
  /\ \E outcome \in SaveOutcomes :
       LET r == Clear(hidx, hstore, outcome)
       IN  /\ hidx' = r.idx
           /\ hstore' = r.store
           /\ op' = OpOf("clear", None, r.exc, FALSE, outcome, TRUE)
  /\ clean' = {}
  /\ calls' = calls + 1
  /\ UNCHANGED fs
  /\ TrackerFrame

\* has_changed(p)
HasChangedOp(p) ==
  /\ calls < MaxOps
  /\ LET r == HasChanged(hidx, fs, p)
     IN  op' = OpOf("has_changed", p, r.exc, r.ret, None, FALSE)
  /\ calls' = calls + 1
  /\ UNCHANGED <<fs, hidx, hstore, clean, es, sr, lz, wt>>
  /\ TrackerFrame

\* the index is dropped and a new FileHashIndex is constructed on the store
Reopen ==
  /\ calls < MaxOps
  /\ hidx' = Load(hstore)
  /\ op' = OpOf("open", None, FALSE, FALSE, None, FALSE)
  /\ clean' = {}
  /\ calls' = calls + 1
  /\ UNCHANGED <<fs, hstore>>
  /\ TrackerFrame

\* the environment writes, deletes or locks a tracked file
EnvWriteTracker(p, c) ==
  /\ writes < MaxWrites
  /\ c \in Writable(p)
  /\ c # fs[p]
  /\ fs' = [fs EXCEPT ![p] = c]
  /\ writes' = writes + 1
  /\ clean' = clean \ {p}
  /\ op' = NoOp
  /\ UNCHANGED <<hidx, hstore, vs, call, dir, snap, last, dirty, calls, ck, es, sr, lz, wt>>

NextTracker ==
  \/ \E p \in TrackerPaths : AddFileOp(p)
  \/ \E p \in TrackerPaths : RemoveFileOp(p)
  \/ ClearOp
  \/ \E p \in TrackerPaths : HasChangedOp(p)
  \/ Reopen
  \/ \E p \in TrackerPaths, c \in FileStates : EnvWriteTracker(p, c)

SpecTracker == InitTracker /\ [][NextTracker]_vars

(***************************************************************************)
(* Properties of index_file (Spec).                                        *)
(***************************************************************************)
Returned == call.pc = "returned"

\* the records a collection holds for the source of path p
SourceRecords(v, p) ==
  {r \in GetCollection(v, CategoryOf[p]) : r.metadata.source_file = NameOf[p]}

\* the chunks of the call in flight are all stored as records
Upserted ==
  \A i \in 1..Len(call.chunks) :
    RecordOf(call.chunks[i], SentenceVector(call.chunks[i].text),
             CategoryOf[call.path])
      \in GetCollection(vs, CategoryOf[call.path])

\* C1: when index_file(p) returned True and the next index_file call is on
\* the same path, with the file not modified since the first call returned,
\* the second call returns False and both collections count what they
\* counted after the first call.
C1_Idempotent ==
  (Returned /\ last.result = "True" /\ last.path = call.path /\ ~call.modified)
    => /\ call.result = "False"
       /\ GetCollectionCount(vs, "vast-data") = last.vast
       /\ GetCollectionCount(vs, "general-tech") = last.general

C1_Witness ==
  /\ Returned /\ last.result = "True" /\ last.path = call.path /\ ~call.modified
  /\ call.exit = "unchanged"
  /\ GetCollectionCount(vs, "general-tech") > 0

\* C2: when index_file returns True, the records its collection holds for
\* the source are as many as the chunks of the content just indexed, and
\* none has an ordinal beyond them; in particular when the source had more
\* records before.
C2_ReindexReplaces ==
  (Returned /\ call.result = "True")
    => /\ Cardinality(SourceRecords(vs, call.path)) = Len(call.chunks)
       /\ \A r \in SourceRecords(vs, call.path) :
            r.metadata.chunk_index < Len(call.chunks)

\* the source shrank: it had more records when the call began
C2_Witness ==
  /\ Returned /\ call.result = "True"
  /\ Cardinality(SourceRecords(snap.vs, call.path)) > Len(call.chunks)
  /\ Cardinality(SourceRecords(vs, call.path)) = Len(call.chunks)

HardGates == {"missing", "ext", "unchanged", "parse", "nochunks"}

\* C3: when index_file returns False because the file is missing, its
\* extension is not allowed, it is unchanged, parsing failed or there are no
\* chunks, the vector store, the hash index and its store file are what they
\* were when the call began.
C3_GatesHaveNoEffect ==
  (Returned /\ call.exit \in HardGates)
    => /\ call.result = "False"
       /\ vs = snap.vs
       /\ hidx = snap.hidx
       /\ hstore = snap.hstore

\* parsing fails for a source that has records and a hash from an earlier run
C3_Witness ==
  /\ Returned /\ call.exit = "parse"
  /\ SourceRecords(vs, call.path) # {}
  /\ HasFile(hidx, call.path)

\* C4 as claimed: when index_file returns True the new records are stored
\* and the hash index holds, for the path, the digest the call computed.
C4_TrueMeansRecorded ==
  (Returned /\ call.result = "True")
    => /\ Upserted
       /\ call.recorded # None
       /\ hidx.map[call.path] = call.recorded

\* C4 as amended: when index_file returns True the new records are stored,
\* and the hash index holds the digest of the file as it was when the hash
\* was recorded and is saved, unless the file was gone by then: in that case
\* the hash index and its store file are what they were when the call began.
C4_TrueMeansRecordedUnlessGone ==
  (Returned /\ call.result = "True")
    => /\ Upserted
       /\ IF call.seen = Missing
          THEN hidx = snap.hidx /\ hstore = snap.hstore
          ELSE /\ call.seen \in Contents
               /\ hidx.map[call.path] = Sha256(call.seen)
               /\ hstore = JsonDump(hidx)

C4_Witness ==
  /\ Returned /\ call.result = "True"
  /\ call.seen \in Contents
  /\ hidx.map[call.path] = Sha256(call.seen)
  /\ snap.hidx.map[call.path] # hidx.map[call.path]

\* C5: an exception raised while parsing, embedding, deleting the old
\* records, upserting or recording the hash is caught: index_file returns
\* False and does not raise.
C5_FailureContained ==
  (Returned /\ call.raised \in {"parse", "embed", "delete", "upsert", "record"})
    => call.result = "False"

\* the hash could not be recorded after the records were replaced
C5_Witness ==
  Returned /\ call.raised = "record" /\ call.result = "False" /\ Upserted

(***************************************************************************)
(* Properties of index_directory (SpecDir).                                *)
(***************************************************************************)
\* C9: index_directory never ends by an exception of index_file; when it
\* returns, every listed entry has had its turn, and errors counts the
\* index_file calls that raised.
C9_BatchNeverAborts ==
  /\ dir.pc # "raised"
  /\ dir.pc = "done"
       => /\ dir.visited = dir.listed
          /\ Len(dir.outcomes) = dir.stats.total
          /\ dir.stats.errors =
               Cardinality({i \in 1..Len(dir.outcomes) : dir.outcomes[i] = "raise"})

\* a file raised and a later file was indexed or skipped
C9_Witness ==
  /\ dir.pc = "done"
  /\ dir.stats.errors > 0
  /\ \E i, j \in 1..Len(dir.outcomes) :
       i < j /\ dir.outcomes[i] = "raise" /\ dir.outcomes[j] # "raise"

(***************************************************************************)
(* Properties of FileHashIndex (SpecTracker).                              *)
(***************************************************************************)
\* C6: has_changed(p) returns True exactly when p is not tracked, or the
\* file does not exist, or its digest differs from the stored one; and once
\* update_file(p) succeeded on an existing file, has_changed(p) returns
\* False as long as the file is not written and the entry not removed.
C6_ChangeDetection ==
  /\ (op.name = "has_changed" /\ ~op.exc)
       => (op.ret <=> \/ ~HasFile(hidx, op.path)
                      \/ fs[op.path] = Missing
                      \/ Sha256(fs[op.path]) # hidx.map[op.path])
  /\ (op.name = "has_changed" /\ op.path \in clean)
       => (~op.exc /\ ~op.ret)

\* a file recorded, then written: has_changed tells
C6_Witness ==
  /\ op.name = "has_changed" /\ ~op.exc /\ op.ret
  /\ HasFile(hidx, op.path)
  /\ fs[op.path] \in Contents
  /\ calls > 1

MutatingOps == {"add_file", "update_file", "remove_file", "clear"}

C8_CorruptStoreRecovery ==
  /\ (op.name = "open" /\ hstore.kind \notin {"absent", "object"})
       => /\ hidx = EmptyIndex
          /\ ListFiles(hidx) = [exc |-> FALSE, files |-> {}]
          /\ \A p \in Paths : HasChanged(hidx, fs, p) = [exc |-> FALSE, ret |-> TRUE]
  /\ (op.name \in {"add_file", "update_file"}
        /\ fs[op.path] \in Contents /\ op.outcome = "ok")
       => ~op.exc

(***************************************************************************)
(* Properties of SemanticChunker (SpecChunk).                              *)
(***************************************************************************)
\* C10: the chunks chunk_document returns carry the ordinals 0..N-1 in list
\* order, also for a PDF chunked page by page.
C10_DenseOrdinals ==
  ck.pc = "done"
    => \A i \in 1..Len(ck.chunks) : ck.chunks[i].chunk_index = i - 1

\* a PDF whose first page gives two chunks or more, and a page after it
C10_Witness ==
  /\ ck.pc = "done"
  /\ ck.document.format = "pdf"
  /\ Len(ck.document.page_texts) > 1
  /\ Len(ck.chunks) > 2
  /\ ck.chunks[2].metadata.page_number = 1
  /\ ck.chunks[Len(ck.chunks)].metadata.page_number > 1

\* the tokens of the document's text
TokenCount(document) == Len(Encode(document.text))

\* C11: chunk_document returns, with more than one chunk for a document of
\* more than chunk_size tokens and with exactly one chunk for a document of
\* at most chunk_size tokens.
C11_ChunkCount ==
  /\ ck.pc # "hung"
  /\ ck.pc = "done"
       => /\ TokenCount(ck.document) > ck.cfg.chunk_size => Len(ck.chunks) > 1
          /\ TokenCount(ck.document) <= ck.cfg.chunk_size => Len(ck.chunks) = 1

(***************************************************************************)
(* More properties of index_file (Spec).                                   *)
(***************************************************************************)
\* C12: when the text parsed from the file is empty, the chunker gives no
\* chunk, index_file returns False, and the vector store, the hash index
\* and its store file are what they were when the call began.
C12_EmptyDocument ==
  (Returned /\ call.empty)
    => /\ call.chunks = <<>>
       /\ call.result = "False"
       /\ vs = snap.vs
       /\ hidx = snap.hidx
       /\ hstore = snap.hstore

(***************************************************************************)
(* Properties of Config (SpecChunk).                                       *)
(***************************************************************************)
\* C13: constructing Config with a chunk_overlap that is not smaller than
\* chunk_size fails: no chunker is ever built on such a pair.
C13_ConfigRejectsOverlap ==
  (ck.pc # "new" /\ ck.cfg.chunk_overlap >= ck.cfg.chunk_size)
    => ck.pc = "rejected"

(***************************************************************************)
(* EmbeddingService (core/embeddings.py).  _cache is a dict, which keeps   *)
(* its keys in the order they were inserted: it is the sequence of its     *)
(* items.  A service state also carries what the properties need to see:   *)
(* born, the time each cached text was inserted; tick, the clock of the    *)
(* insertions; log, the evictions of the call that ran last.               *)
(***************************************************************************)
\* cache_size: EmbeddingService is always built with its default, scaled down
CacheSize == 2
\* the longest list encode_batch is called with
MaxBatch == 2
\* calls on the service in one behaviour of SpecEmbed
MaxEmbedOps == 3

EmbedTexts == {"t1", "t2", "t3"}

\* SentenceTransformer.encode: the vector of a text, a function of the text
ModelEncode(text) ==
  CASE text = "t1" -> "v1"
    [] text = "t2" -> "v2"
    [] text = "t3" -> "v3"

CacheKeys(cache) == {cache[i].text : i \in 1..Len(cache)}

\* self._cache[text]
CacheGet(cache, text) ==
  cache[CHOOSE i \in 1..Len(cache) : cache[i].text = text].emb

EmptyService ==
  [cache |-> <<>>, born |-> [t \in EmbedTexts |-> 0], tick |-> 0, log |-> <<>>]

\* the mutant of AddToCache: the cache is trimmed only when it is over its size
AddToCacheWhenOver(S, text, emb) ==
  LET S1 == IF Len(S.cache) > CacheSize
            THEN [S EXCEPT !.cache = Tail(@),
                           !.born[S.cache[1].text] = 0,
                           !.log = Append(@, [key |-> S.cache[1].text,
                                              before |-> S.cache, born |-> S.born])]
            ELSE S
  IN  IF text \in CacheKeys(S1.cache)
      THEN [S1 EXCEPT !.cache = [i \in 1..Len(S1.cache) |->
                                   IF S1.cache[i].text = text
                                   THEN [text |-> text, emb |-> emb]
                                   ELSE S1.cache[i]]]
      ELSE [S1 EXCEPT !.cache = Append(@, [text |-> text, emb |-> emb]),
                      !.born[text] = S1.tick + 1,
                      !.tick = @ + 1]

\* the mutant of AddToCache: the item inserted last is the one removed
AddToCacheEvictsNewest(S, text, emb) ==
  LET n == Len(S.cache)
      S1 == IF n >= CacheSize
            THEN [S EXCEPT !.cache = SubSeq(@, 1, n - 1),
                           !.born[S.cache[n].text] = 0,
                           !.log = Append(@, [key |-> S.cache[n].text,
                                              before |-> S.cache, born |-> S.born])]
            ELSE S
  IN  IF text \in CacheKeys(S1.cache)
      THEN [S1 EXCEPT !.cache = [i \in 1..Len(S1.cache) |->
                                   IF S1.cache[i].text = text
                                   THEN [text |-> text, emb |-> emb]
                                   ELSE S1.cache[i]]]
      ELSE [S1 EXCEPT !.cache = Append(@, [text |-> text, emb |-> emb]),
                      !.born[text] = S1.tick + 1,
                      !.tick = @ + 1]

\* EmbeddingService._add_to_cache: when the cache holds cache_size items or
\* more, the first key of the dict is deleted; then self._cache[text] is
\* assigned, which appends a new key and leaves a present key where it is
AddToCache(S, text, emb) ==
  LET S1 == IF Len(S.cache) >= CacheSize
            THEN [S EXCEPT !.cache = Tail(@),
                           !.born[S.cache[1].text] = 0,
                           !.log = Append(@, [key |-> S.cache[1].text,
                                              before |-> S.cache, born |-> S.born])]
            ELSE S
  IN  IF text \in CacheKeys(S1.cache)
      THEN [S1 EXCEPT !.cache = [i \in 1..Len(S1.cache) |->
                                   IF S1.cache[i].text = text
                                   THEN [text |-> text, emb |-> emb]
                                   ELSE S1.cache[i]]]
      ELSE [S1 EXCEPT !.cache = Append(@, [text |-> text, emb |-> emb]),
                      !.born[text] = S1.tick + 1,
                      !.tick = @ + 1]

\* EmbeddingService.encode_text: [S, ret]
EncodeText(S, text) ==
  IF text \in CacheKeys(S.cache)
  THEN [S |-> S, ret |-> CacheGet(S.cache, text)]
  ELSE LET embedding == ModelEncode(text)
       IN  [S |-> AddToCache(S, text, embedding), ret |-> embedding]

\* the first loop of encode_batch: the indices of the texts not in the cache
RECURSIVE UncachedIndices(_, _, _)
UncachedIndices(cache, texts, idx) ==
  IF idx > Len(texts) THEN <<>>
  ELSE (IF texts[idx] \in CacheKeys(cache) THEN <<>> ELSE <<idx>>)
         \o UncachedIndices(cache, texts, idx + 1)

\* the second loop of encode_batch, from the k-th uncached text on: the
\* placeholder is filled and the vector cached
RECURSIVE FillBatch(_, _, _, _, _, _)
FillBatch(S, embeddings, uncached_indices, uncached_texts, new_embeddings, k) ==
  IF k > Len(uncached_indices) THEN [S |-> S, ret |-> embeddings]
  ELSE FillBatch(AddToCache(S, uncached_texts[k], new_embeddings[k]),
                 [embeddings EXCEPT ![uncached_indices[k]] = new_embeddings[k]],
                 uncached_indices, uncached_texts, new_embeddings, k + 1)

\* the mutant of EncodeBatch: a text that occurs twice in the list is
\* encoded once, and only its first placeholder is filled
EncodeBatchOncePerText(S, texts) ==
  LET all == UncachedIndices(S.cache, texts, 1)
      uncached_indices ==
        SelectSeq(all, LAMBDA i : \A j \in 1..(i - 1) : texts[j] # texts[i])
      uncached_texts == [k \in 1..Len(uncached_indices) |-> texts[uncached_indices[k]]]
      embeddings == [i \in 1..Len(texts) |->
                       IF texts[i] \in CacheKeys(S.cache)
                       THEN CacheGet(S.cache, texts[i]) ELSE None]
      new_embeddings == [k \in 1..Len(uncached_texts) |-> ModelEncode(uncached_texts[k])]
  IN  FillBatch(S, embeddings, uncached_indices, uncached_texts, new_embeddings, 1)

\* EmbeddingService.encode_batch: [S, ret]
EncodeBatch(S, texts) ==
  LET uncached_indices == UncachedIndices(S.cache, texts, 1)
      uncached_texts == [k \in 1..Len(uncached_indices) |-> texts[uncached_indices[k]]]
      embeddings == [i \in 1..Len(texts) |->
                       IF texts[i] \in CacheKeys(S.cache)
                       THEN CacheGet(S.cache, texts[i]) ELSE None]
      new_embeddings == [k \in 1..Len(uncached_texts) |-> ModelEncode(uncached_texts[k])]
  IN  FillBatch(S, embeddings, uncached_indices, uncached_texts, new_embeddings, 1)

\* EmbeddingService.clear_cache
ClearCache(S) ==
  [S EXCEPT !.cache = <<>>, !.born = [t \in EmbedTexts |-> 0]]

(***************************************************************************)
(* EmbeddingService on its own (SpecEmbed): a client calls encode_text,    *)
(* encode_batch and clear_cache in any order.  es.last is the call that    *)
(* ran last, with the service as it was before (pre) and the texts that    *)
(* had been served from the cache since they were inserted (hits).         *)
(***************************************************************************)
EmbedBatches == UNION {[1..n -> EmbedTexts] : n \in 0..MaxBatch}

NoEmbedCall ==
  [name |-> None, texts |-> <<>>, ret |-> <<>>, pre |-> EmptyService, hits |-> {}]

\* EmbeddingService(): the model is loaded and the cache is empty
InitEmbed ==
  /\ fs = InitFiles
  /\ hstore = AbsentStore
  /\ hidx = Load(AbsentStore)
  /\ vs = EmptyStore
  /\ call = IdleCall
  /\ dir = IdleDir
  /\ snap = NoSnap
  /\ last = NoCall
  /\ dirty = FALSE
  /\ writes = 0
  /\ calls = 0
  /\ op = NoOp
  /\ clean = {}
  /\ ck = NoChunking
  /\ es = [pc |-> "on", S |-> EmptyService, n |-> 0, hits |-> {}, last |-> NoEmbedCall]
  /\ sr = NoSearch
  /\ lz = NoLoad
  /\ wt = NoWatch

EmbedFrame ==
  UNCHANGED <<fs, hidx, hstore, vs, call, dir, snap, last, dirty, writes,
              calls, op, clean, ck, sr, lz, wt>>

\* the service after a call that returned r for the texts asked
AfterEmbedCall(name, texts, r) ==
  [es EXCEPT !.S = r.S,
             !.n = @ + 1,
             !.hits = (@ \cup {texts[i] : i \in 1..Len(texts)})
                        \cap CacheKeys(es.S.cache) \cap CacheKeys(r.S.cache),
             !.last = [name |-> name, texts |-> texts, ret |-> r.ret,
                       pre |-> es.S, hits |-> es.hits]]

\* encode_text(text)
EncodeTextCall(text) ==
  /\ es.pc = "on"
  /\ es.n < MaxEmbedOps
  /\ es' = AfterEmbedCall("encode_text", <<text>>,
             LET r == EncodeText([es.S EXCEPT !.log = <<>>], text)
             IN  [S |-> r.S, ret |-> <<r.ret>>])
  /\ EmbedFrame

\* encode_batch(texts)
EncodeBatchCall(texts) ==
  /\ es.pc = "on"
  /\ es.n < MaxEmbedOps
  /\ es' = AfterEmbedCall("encode_batch", texts,
             EncodeBatch([es.S EXCEPT !.log = <<>>], texts))
  /\ EmbedFrame

\* clear_cache()
ClearCacheCall ==
  /\ es.pc = "on"
  /\ es.n < MaxEmbedOps
  /\ es' = AfterEmbedCall("clear_cache", <<>>,
             [S |-> ClearCache([es.S EXCEPT !.log = <<>>]), ret |-> <<>>])
  /\ EmbedFrame

NextEmbed ==
  \/ \E text \in EmbedTexts : EncodeTextCall(text)
  \/ \E texts \in EmbedBatches : EncodeBatchCall(texts)
  \/ ClearCacheCall

SpecEmbed == InitEmbed /\ [][NextEmbed]_vars

(***************************************************************************)
(* Properties of EmbeddingService (SpecEmbed).                             *)
(***************************************************************************)
\* C14: after any sequence of encode_text, encode_batch and clear_cache the
\* cache holds at most cache_size entries.
C14_CacheBound ==
  es.pc = "on" => Len(es.S.cache) <= CacheSize

\* a batch with a repeated text evicted from a full cache
C14_Witness ==
  /\ es.pc = "on"
  /\ es.last.name = "encode_batch"
  /\ \E i, j \in 1..Len(es.last.texts) : i < j /\ es.last.texts[i] = es.last.texts[j]
  /\ Len(es.last.pre.cache) = CacheSize
  /\ Len(es.S.log) > 0

EmbedCalls == {"encode_text", "encode_batch"}

RECURSIVE EncodeEach(_, _)
EncodeEach(S, texts) ==
  IF texts = <<>> THEN <<>>
  ELSE LET r == EncodeText(S, Head(texts))
       IN  <<r.ret>> \o EncodeEach(r.S, Tail(texts))

\* C16: encode_batch(texts) returns as many vectors as texts, none left
\* unfilled, the i-th being what encode_text(texts[i]) returns when called
\* once per text in order from the same cache.
C16_BatchIsSequential ==
  (es.pc = "on" /\ es.last.name = "encode_batch")
    => /\ Len(es.last.ret) = Len(es.last.texts)
       /\ \A i \in 1..Len(es.last.texts) :
            /\ es.last.ret[i] # None
            /\ es.last.ret[i] = EncodeEach(es.last.pre, es.last.texts)[i]

\* a batch of a cached text and a text not cached, whose insertion evicts
\* the cached one
C16_Witness ==
  /\ es.pc = "on"
  /\ es.last.name = "encode_batch"
  /\ \E i, j \in 1..Len(es.last.texts) :
       /\ i < j
       /\ es.last.texts[i] \in CacheKeys(es.last.pre.cache)
       /\ es.last.texts[j] \notin CacheKeys(es.last.pre.cache)
       /\ es.last.texts[i] \notin CacheKeys(es.S.cache)
  /\ Len(es.S.log) > 0

(***************************************************************************)
(* ChromaDBManager.search (core/vector_store.py).  Vectors are tuples of   *)
(* integers, the distance of a collection is chroma's default, the squared *)
(* L2 distance, and a score is the rational 1 / (1 + distance), kept as    *)
(* its numerator and denominator.                                          *)
(***************************************************************************)
\* records a batch of SpecStore may hold, and the largest n_results asked
MaxStoreBatch == 2
MaxTopK == 2

Min(a, b) == IF a <= b THEN a ELSE b

\* the squared L2 distance of two vectors
RECURSIVE SquaredL2(_, _)
SquaredL2(u, v) ==
  IF u = <<>> THEN 0
  ELSE (Head(u) - Head(v)) * (Head(u) - Head(v)) + SquaredL2(Tail(u), Tail(v))

\* a / b < c / d, for positive b and d
RatLess(x, y) == x.num * y.den < y.num * x.den

\* the mutant of Similarity: the score falls linearly with the distance
SimilarityLinear(distance) == [num |-> 1 - distance, den |-> 1]

\* similarity = 1 / (1 + distance)
Similarity(distance) == [num |-> 1, den |-> 1 + distance]

\* collection.query(query_embeddings=[q], n_results=n): the n records nearest
\* to q, or all of them when there are fewer, nearest first; records at the
\* same distance come in any order
QueryResults(coll, q, n) ==
  LET k == Min(n, Cardinality(coll))
  IN  {res \in [1..k -> coll] :
         /\ \A i, j \in 1..k : i < j => res[i] # res[j]
         /\ \A i, j \in 1..k :
              i < j => SquaredL2(q, res[i].embedding) <= SquaredL2(q, res[j].embedding)
         /\ \A r \in coll \ {res[i] : i \in 1..k} :
              \A i \in 1..k :
                SquaredL2(q, res[i].embedding) <= SquaredL2(q, r.embedding)}

\* the mutant of SearchCollections: the category asked for is ignored
SearchCollectionsBoth(v, category) ==
  << <<v["vast-data"], "vast-data">>, <<v["general-tech"], "general-tech">> >>

\* the collections search queries, each with the category its results get
SearchCollections(v, category) ==
  IF category # None
  THEN << <<GetCollection(v, category), category>> >>
  ELSE << <<v["vast-data"], "vast-data">>, <<v["general-tech"], "general-tech">> >>

\* the mutant of CollectionHits: an empty collection is queried as well,
\* which the index of the collection may refuse
CollectionHitsQueriesEmpty(coll, q, n) ==
  {[exc |-> FALSE, hits |-> h] : h \in QueryResults(coll, q, n)}
    \cup (IF Cardinality(coll) = 0 THEN {[exc |-> TRUE, hits |-> <<>>]} ELSE {})

\* what a collection answers inside search: it is skipped when its count is
\* 0 and queried otherwise; exc says that the query raised
CollectionHits(coll, q, n) ==
  IF Cardinality(coll) = 0 THEN {[exc |-> FALSE, hits |-> <<>>]}
  ELSE {[exc |-> FALSE, hits |-> h] : h \in QueryResults(coll, q, n)}

\* the SearchResult search builds from a hit; id and distance are not fields
\* of SearchResult: they say which record the result came from and the
\* distance chroma reported for it
ResultOf(r, q, cat) ==
  [text |-> r.document,
   source |-> r.metadata.source_file,
   page |-> r.metadata.page_number,
   section |-> r.metadata.section,
   score |-> Similarity(SquaredL2(q, r.embedding)),
   category |-> cat,
   id |-> r.id,
   distance |-> SquaredL2(q, r.embedding)]

\* all_results: the results of the collections searched, in that order
RECURSIVE AllResults(_, _, _)
AllResults(collections, hits, q) ==
  IF collections = <<>> THEN <<>>
  ELSE [i \in 1..Len(Head(hits)) |-> ResultOf(Head(hits)[i], q, Head(collections)[2])]
         \o AllResults(Tail(collections), Tail(hits), q)

\* the place list.sort gives x among results sorted already: behind every
\* result whose score is not lower (the sort is stable)
InsertResult(sorted, x) ==
  LET k == Cardinality({i \in 1..Len(sorted) : ~RatLess(sorted[i].score, x.score)})
  IN  SubSeq(sorted, 1, k) \o <<x>> \o SubSeq(sorted, k + 1, Len(sorted))

\* the mutant of SortByScore: the results stay in the order of the collections
SortByScoreKeepsOrder(all_results) == all_results

\* all_results.sort(key=lambda x: x.score, reverse=True)
RECURSIVE SortByScore(_)
SortByScore(all_results) ==
  IF all_results = <<>> THEN <<>>
  ELSE InsertResult(SortByScore(SubSeq(all_results, 1, Len(all_results) - 1)),
                    all_results[Len(all_results)])

\* ChromaDBManager.search, given what each collection searched answered
Search(collections, hits, q, n_results) ==
  LET all_results == SortByScore(AllResults(collections, hits, q))
  IN  SubSeq(all_results, 1, Min(n_results, Len(all_results)))

(***************************************************************************)
(* ChromaDBManager on its own (SpecStore): a client calls add_documents,   *)
(* delete_by_source and search in any order.  sr is the call that ran      *)
(* last; for add_documents it says whether a stored record was replaced by *)
(* one that differs (overwrote) and which collections changed (touched),   *)
(* for delete_by_source what the store held before (pre), for search       *)
(* whether it raised (exc).                                                *)
(***************************************************************************)
StoreSources == {"a.md", "b.md"}
StoreVectors == {<<0>>, <<1>>, <<2>>}

\* the records a client adds: chunk 0 of a.md in vast-data, chunk 0 of a.md
\* and chunk 0 of b.md in general-tech, each in two versions that differ in
\* text, page and vector
StoreSlots ==
  << <<"a.md", 0, "vast-data">>, <<"a.md", 0, "general-tech">>,
     <<"b.md", 0, "general-tech">> >>

StoreVersions ==
  {[text |-> <<"x">>, page |-> 0, embedding |-> <<0>>],
   [text |-> <<"y">>, page |-> 1, embedding |-> <<2>>]}

StoreChunks ==
  {<<DocumentChunk(v.text, StoreSlots[k][1], StoreSlots[k][3], v.page, <<>>,
                   StoreSlots[k][2]), v.embedding>> :
     k \in 1..Len(StoreSlots), v \in StoreVersions}

\* the place of a chunk in the order a batch lists its chunks in
ChunkRank(ce) ==
  CHOOSE k \in 1..Len(StoreSlots) :
    StoreSlots[k] = <<ce[1].metadata.source_file, ce[1].chunk_index,
                      ce[1].metadata.category>>

\* the lists add_documents is called with: collection.upsert takes a list
\* whose ids are distinct, so no two chunks of a list have the same source,
\* ordinal and category
StoreBatches ==
  {b \in UNION {[1..n -> StoreChunks] : n \in 0..MaxStoreBatch} :
     \A i, j \in 1..Len(b) : i < j => ChunkRank(b[i]) < ChunkRank(b[j])}

NoStoreCall ==
  [pc |-> "on", name |-> None, batch |-> <<>>, overwrote |-> FALSE,
   touched |-> {}, pre |-> EmptyStore, exc |-> FALSE,
   source |-> None, category |-> None, q |-> <<>>, n |-> 0, results |-> <<>>]

\* ChromaDBManager(persist_directory) on a new directory
InitStore ==
  /\ fs = InitFiles
  /\ hstore = AbsentStore
  /\ hidx = Load(AbsentStore)
  /\ vs = EmptyStore
  /\ call = IdleCall
  /\ dir = IdleDir
  /\ snap = NoSnap
  /\ last = NoCall
  /\ dirty = FALSE
  /\ writes = 0
  /\ calls = 0
  /\ op = NoOp
  /\ clean = {}
  /\ ck = NoChunking
  /\ es = NoService
  /\ sr = NoStoreCall
  /\ lz = NoLoad
  /\ wt = NoWatch

StoreFrame ==
  UNCHANGED <<fs, hidx, hstore, call, dir, snap, last, dirty, writes, calls,
              op, clean, ck, es, lz, wt>>

\* a chunk of the batch replaces a stored record of its collection that has
\* another text, another vector and other metadata
Overwrites(v, batch) ==
  \E i \in 1..Len(batch) :
    \E r \in GetCollection(v, batch[i][1].metadata.category) :
      LET n == RecordOf(batch[i][1], batch[i][2], batch[i][1].metadata.category)
      IN  /\ r.id = n.id
          /\ r.document # n.document
          /\ r.embedding # n.embedding
          /\ r.metadata # n.metadata

\* the categories whose collection a call changed
Touched(v, w) == {c \in Categories : v[c] # w[c]}

\* add_documents(batch)
AddDocumentsCall(batch) ==
  /\ sr.pc = "on"
  /\ vs' = AddDocuments(vs, batch)
  /\ sr' = [NoStoreCall EXCEPT !.name = "add_documents", !.batch = batch,
                               !.overwrote = Overwrites(vs, batch),
                               !.touched = Touched(vs, AddDocuments(vs, batch))]
  /\ StoreFrame

\* delete_by_source(source_file, category)
DeleteBySourceCall(source_file, category) ==
  /\ sr.pc = "on"
  /\ vs' = DeleteBySource(vs, source_file, category)
  /\ sr' = [NoStoreCall EXCEPT !.name = "delete_by_source", !.pre = vs,
                               !.source = source_file, !.category = category]
  /\ StoreFrame

\* search(query_embedding, category, n_results)
SearchCall(q, category, n_results) ==
  /\ sr.pc = "on"
  /\ LET collections == SearchCollections(vs, category)
     IN  \E first \in CollectionHits(collections[1][1], q, n_results) :
           \E second \in IF Len(collections) = 2
                         THEN CollectionHits(collections[2][1], q, n_results)
                         ELSE {[exc |-> FALSE, hits |-> <<>>]} :
             sr' = [NoStoreCall EXCEPT
                      !.name = "search", !.category = category, !.q = q,
                      !.n = n_results,
                      !.exc = first.exc \/ second.exc,
                      !.results = IF first.exc \/ second.exc THEN <<>>
                                  ELSE Search(collections,
                                              IF Len(collections) = 2
                                              THEN <<first.hits, second.hits>>
                                              ELSE <<first.hits>>,
                                              q, n_results)]
  /\ vs' = vs
  /\ StoreFrame

NextStore ==
  \/ \E batch \in StoreBatches : AddDocumentsCall(batch)
  \/ \E source_file \in StoreSources, category \in Categories :
       DeleteBySourceCall(source_file, category)
  \/ \E q \in StoreVectors, category \in Categories \cup {None},
        n_results \in 1..MaxTopK :
       SearchCall(q, category, n_results)

SpecStore == InitStore /\ [][NextStore]_vars

(***************************************************************************)
(* Properties of ChromaDBManager (SpecStore).                              *)
(***************************************************************************)
\* C17: after add_documents every collection holds one record for an id,
\* the record stored under the id of an added chunk has the chunk's text,
\* vector and metadata, whatever was stored under it before, and
\* add_documents of the same records once more leaves both collections as
\* they are.
C17_UpsertNoDuplicate ==
  /\ \A c \in Categories : Cardinality({r.id : r \in vs[c]}) = Cardinality(vs[c])
  /\ (sr.pc = "on" /\ sr.name = "add_documents")
       => /\ \A i \in 1..Len(sr.batch) :
               LET chunk == sr.batch[i][1]
                   category == chunk.metadata.category
               IN  {r \in GetCollection(vs, category) :
                      r.id = <<chunk.metadata.source_file, chunk.chunk_index>>}
                     = {RecordOf(chunk, sr.batch[i][2], category)}
          /\ AddDocuments(vs, sr.batch) = vs

C17_Witness ==
  sr.pc = "on" /\ sr.name = "add_documents" /\ sr.overwrote

\* C18: add_documents puts the record of every chunk into the collection of
\* the chunk's category and changes no collection but those of the chunks'
\* categories; every stored record is tagged with the category of its
\* collection; and search with a category returns only results tagged with
\* that category, each of a record stored in that category's collection.
C18_CategoryIsolation ==
  /\ \A c \in Categories : \A r \in vs[c] : r.metadata.category = c
  /\ (sr.pc = "on" /\ sr.name = "add_documents")
       => /\ \A i \in 1..Len(sr.batch) :
               \E r \in vs[sr.batch[i][1].metadata.category] :
                 /\ r.id = <<sr.batch[i][1].metadata.source_file,
                             sr.batch[i][1].chunk_index>>
                 /\ r.document = sr.batch[i][1].text
                 /\ r.embedding = sr.batch[i][2]
          /\ sr.touched \subseteq
               {sr.batch[i][1].metadata.category : i \in 1..Len(sr.batch)}
  /\ (sr.pc = "on" /\ sr.name = "search" /\ sr.category # None)
       => \A i \in 1..Len(sr.results) :
            /\ sr.results[i].category = sr.category
            /\ \E r \in vs[sr.category] :
                 /\ r.id = sr.results[i].id
                 /\ r.document = sr.results[i].text
                 /\ r.metadata.category = sr.category

\* a search of vast-data returns a result while general-tech holds a record
\* nearer to the query than every result
C18_Witness ==
  /\ sr.pc = "on" /\ sr.name = "search" /\ sr.category = "vast-data"
  /\ Len(sr.results) >= 1
  /\ \E r \in vs["general-tech"] :
       \A i \in 1..Len(sr.results) :
         SquaredL2(sr.q, r.embedding) < sr.results[i].distance

\* a stored record and the category of its collection are among the results
Returns(results, r, c) ==
  \E i \in 1..Len(results) : results[i].id = r.id /\ results[i].category = c

\* C19: search with no category returns at most n_results results in
\* descending order of score, each of a record stored in the collection it
\* is tagged with and none twice; when a stored record of either collection
\* is not among them, n_results results are returned and none of them scores
\* lower than that record.
C19_CrossCollectionMerge ==
  (sr.pc = "on" /\ sr.name = "search" /\ sr.category = None)
    => /\ Len(sr.results) <= sr.n
       /\ \A i, j \in 1..Len(sr.results) :
            i < j => ~RatLess(sr.results[i].score, sr.results[j].score)
       /\ \A i \in 1..Len(sr.results) :
            \E r \in vs[sr.results[i].category] :
              /\ r.id = sr.results[i].id
              /\ sr.results[i].score = Similarity(SquaredL2(sr.q, r.embedding))
       /\ \A i, j \in 1..Len(sr.results) :
            i < j => \/ sr.results[i].id # sr.results[j].id
                     \/ sr.results[i].category # sr.results[j].category
       /\ \A c \in Categories : \A r \in vs[c] :
            ~Returns(sr.results, r, c)
              => /\ Len(sr.results) = sr.n
                 /\ \A i \in 1..Len(sr.results) :
                      ~RatLess(sr.results[i].score,
                               Similarity(SquaredL2(sr.q, r.embedding)))

\* two results are asked of both collections, both come from general-tech,
\* which is queried second, and the record of vast-data, which scores lower,
\* is left out
C19_Witness ==
  /\ sr.pc = "on" /\ sr.name = "search" /\ sr.category = None
  /\ sr.n >= 2 /\ Len(sr.results) = sr.n
  /\ \A i \in 1..Len(sr.results) : sr.results[i].category = "general-tech"
  /\ \E r \in vs["vast-data"] :
       \A i \in 1..Len(sr.results) :
         RatLess(Similarity(SquaredL2(sr.q, r.embedding)), sr.results[i].score)

\* C20: every result of search has a distance of at least 0 and the score
\* 1 / (1 + distance), which is above 0 and at most 1 and is 1 when the
\* distance is 0; of two results the one with the larger distance does not
\* have the larger score.
C20_ScoreBounds ==
  (sr.pc = "on" /\ sr.name = "search")
    => /\ \A i \in 1..Len(sr.results) :
            LET x == sr.results[i]
            IN  /\ x.distance >= 0
                /\ x.score.den > 0
                /\ x.score.num * (1 + x.distance) = x.score.den
                /\ 0 < x.score.num /\ x.score.num <= x.score.den
                /\ x.distance = 0 => x.score.num = x.score.den
       /\ \A i, j \in 1..Len(sr.results) :
            sr.results[i].distance > sr.results[j].distance
              => ~RatLess(sr.results[j].score, sr.results[i].score)

\* a search returns a record at distance 0 and one farther away
C20_Witness ==
  /\ sr.pc = "on" /\ sr.name = "search"
  /\ \E i, j \in 1..Len(sr.results) :
       /\ sr.results[i].distance = 0
       /\ sr.results[j].distance > 0
       /\ RatLess(sr.results[j].score, sr.results[i].score)

\* the collections a search with this category looks at
Searched(category) == IF category = None THEN Categories ELSE {category}

\* C21: search does not raise; it returns the empty list when every
\* collection it searches is empty, and when it searches both and one is
\* empty it returns the n_results best records of the other, or all of them
\* when there are fewer.
C21_EmptyCollections ==
  (sr.pc = "on" /\ sr.name = "search")
    => /\ ~sr.exc
       /\ (\A c \in Searched(sr.category) : vs[c] = {}) => sr.results = <<>>
       /\ \A c \in Categories :
            (sr.category = None /\ vs[c] = {})
              => \A d \in Categories \ {c} :
                   /\ Len(sr.results) = Min(sr.n, Cardinality(vs[d]))
                   /\ \A i \in 1..Len(sr.results) : sr.results[i].category = d

\* both collections are searched, vast-data, which is asked first, is empty
\* and general-tech gives results
C21_Witness ==
  /\ sr.pc = "on" /\ sr.name = "search" /\ sr.category = None
  /\ vs["vast-data"] = {} /\ vs["general-tech"] # {}
  /\ Len(sr.results) >= 1

\* C22: delete_by_source(source, category) leaves in the collection of the
\* category the records whose source_file is not source, all as they were,
\* and leaves the other collection as it was; when no record of the
\* collection has the source the store is unchanged.
C22_DeleteBySourceFrame ==
  (sr.pc = "on" /\ sr.name = "delete_by_source")
    => /\ GetCollection(vs, sr.category)
            = {r \in GetCollection(sr.pre, sr.category) :
                 r.metadata.source_file # sr.source}
       /\ \A c \in Categories \ {sr.category} : vs[c] = sr.pre[c]
       /\ (\A r \in GetCollection(sr.pre, sr.category) :
             r.metadata.source_file # sr.source) => vs = sr.pre

\* a delete removed the records of one source while the collection kept a
\* record of another source and the other collection held a record of the
\* same source
C22_Witness ==
  /\ sr.pc = "on" /\ sr.name = "delete_by_source"
  /\ \E r \in GetCollection(sr.pre, sr.category) : r.metadata.source_file = sr.source
  /\ GetCollection(vs, sr.category) # {}
  /\ \E c \in Categories \ {sr.category} :
       \E r \in vs[c] : r.metadata.source_file = sr.source

(***************************************************************************)
(* Further properties of index_file (Spec).                                *)
(***************************************************************************)
\* str(path).lower() holds one of the keywords
HasVastKeyword(p) ==
  \E k \in { <<"v", "a", "s", "t">>,
             <<"v", "a", "s", "t", "d", "a", "t", "a">>,
             <<"v", "a", "s", "t", "_", "d", "a", "t", "a">>,
             <<"v", "a", "s", "t", "-", "d", "a", "t", "a">> } :
    \E i \in 1..Len(PathStr(p)) :
      /\ i + Len(k) - 1 <= Len(PathStr(p))
      /\ \A j \in 1..Len(k) : Lower(PathStr(p)[i + j - 1]) = k[j]

\* the category the keywords give every path of the model, computed once
KeywordCategory ==
  [p \in Paths |-> IF HasVastKeyword(p) THEN "vast-data" ELSE "general-tech"]

AfterDelete == DeleteBySource(snap.vs, NameOf[call.path], CategoryOf[call.path])

\* C28: the steps of index_file run in the order parse and chunk, embed,
\* delete, upsert, record: before the delete step the stores are as the call
\* found them, before the upsert step only the old records are gone, before
\* the record step the new records are stored, and the hash index is
\* written by the record step only.  A run that fails before that step
\* leaves the hash index and its store file as they were, so has_changed,
\* True at the check, is True again for the file as the check saw it.
C28_StepOrder ==
  /\ call.pc = "parse" => call.chunks = <<>>
  /\ call.pc \in {"parse", "embed", "delete"} => vs = snap.vs
  /\ call.pc = "upsert" => vs = AfterDelete
  /\ call.pc = "record" => vs = AddDocuments(AfterDelete, EmbedChunks(call.chunks))
  /\ call.pc \in {"parse", "embed", "delete", "upsert", "record"}
       => /\ hidx = snap.hidx /\ hstore = snap.hstore
          /\ call.pc # "parse" => call.chunks # <<>>
  /\ (Returned /\ (hidx # snap.hidx \/ hstore # snap.hstore))
       => /\ call.exit = "done" \/ call.raised = "record"
          /\ vs = AddDocuments(AfterDelete, EmbedChunks(call.chunks))
  /\ (Returned /\ call.raised \in {"parse", "embed", "delete", "upsert"})
       => /\ hidx = snap.hidx /\ hstore = snap.hstore
          /\ fs[call.path] = call.checked
               => HasChanged(hidx, fs, call.path) = [exc |-> FALSE, ret |-> TRUE]

\* the upsert failed after the old records had been deleted: the hash index
\* still holds the hash of the earlier content and has_changed is True
C28_Witness ==
  /\ Returned /\ call.raised = "upsert"
  /\ snap.hidx.map[call.path] # None
  /\ vs # snap.vs
  /\ fs[call.path] = call.checked
  /\ HasChanged(hidx, fs, call.path).ret

\* the records index_file stores for a path with a content, computed once:
\* none when the content cannot be parsed or chunked
RecordsOfContent ==
  [p \in Paths |-> [c \in FileStates |->
     IF Parsed[p][c].exc \/ Parsed[p][c].ch.div THEN {}
     ELSE {RecordOf(Parsed[p][c].ch.chunks[i],
                    SentenceVector(Parsed[p][c].ch.chunks[i].text),
                    CategoryOf[p]) :
             i \in 1..Len(Parsed[p][c].ch.chunks)}]]

\* C29: whenever no call is in flight for a path and has_changed of the path
\* is False, the records stored for the source of the path are the chunks of
\* the file as it is.
C29_IndexTrackerConsistency ==
  \A p \in Paths :
    ( /\ call.pc \in {"idle", "returned"} \/ call.path # p
      /\ HasChanged(hidx, fs, p) = [exc |-> FALSE, ret |-> FALSE] )
      => SourceRecords(vs, p) = RecordsOfContent[p][fs[p]]

\* C30: while index_file(p) runs and when it has returned, the collection
\* of the other category is what it was when the call began, and so are the
\* records of the file that the call before indexed, when that is another
\* file: the files with the base name of p in the category of p included.
C30_OwnSourceOnly ==
  call.path # None
    => /\ \A c \in Categories \ {CategoryOf[call.path]} : vs[c] = snap.vs[c]
       /\ (last.path \notin {None, call.path} /\ last.result = "True")
            => SourceRecords(vs, last.path) = SourceRecords(snap.vs, last.path)

\* the records of its source that the call in flight stores at its upsert step
NewRecords ==
  SourceRecords(AddDocuments(AfterDelete, EmbedChunks(call.chunks)), call.path)

\* C26: a reader of the store (search, get_document_by_source, count) that
\* runs while index_file is in flight finds, for the source being indexed,
\* either the records the call found or the records the call stores, never
\* neither and never a part of one.
C26_AtomicForReaders ==
  call.pc \in {"parse", "embed", "delete", "upsert", "record"}
    => SourceRecords(vs, call.path)
         \in {SourceRecords(snap.vs, call.path), NewRecords}

(***************************************************************************)
(* SpecLoad: the lazy property DocumentIndexer.embedding_service read by   *)
(* the threads of the server.  _handle_search runs on the event loop,      *)
(* index_directory on an executor thread, the watcher's callbacks on timer *)
(* threads; the watcher is started when index_directory has returned.      *)
(* The property takes no lock, so its statements interleave: the test of   *)
(* the field, the constructor, the assignment and the read that returns.   *)
(* Instances are numbered in the order their constructors return; 0 is no  *)
(* instance.                                                               *)
(***************************************************************************)
\* reads of the property started in one behaviour
MaxLoadReads == 4

\* the event loop thread, the executor thread, two timer threads
LoadThreads == {"loop", "executor", "timer1", "timer2"}
TimerThreads == {"timer1", "timer2"}

IdleReader == [pc |-> "idle", inst |-> 0]

InitLoad ==
  /\ fs = InitFiles
  /\ hstore = AbsentStore
  /\ hidx = Load(AbsentStore)
  /\ vs = EmptyStore
  /\ call = IdleCall
  /\ dir = IdleDir
  /\ snap = NoSnap
  /\ last = NoCall
  /\ dirty = FALSE
  /\ writes = 0
  /\ calls = 0
  /\ op = NoOp
  /\ clean = {}
  /\ ck = NoChunking
  /\ es = NoService
  /\ sr = NoSearch
  /\ wt = NoWatch
  /\ lz = [pc |-> "on", field |-> 0, built |-> 0, watching |-> FALSE,
           reads |-> 0, th |-> [t \in LoadThreads |-> IdleReader]]

LoadFrame ==
  UNCHANGED <<fs, hidx, hstore, vs, call, dir, snap, last, dirty, writes,
              calls, op, clean, ck, es, sr, wt>>

\* the thread may run: index_directory runs until the watcher is started,
\* the timer threads exist once it is
MayRun(t) ==
  CASE t = "executor" -> ~lz.watching
    [] t \in TimerThreads -> lz.watching
    [] OTHER -> TRUE

\* `if self._embedding_service is None`
FieldIsNone(t) == lz.field = 0

\* a thread reads the property and tests the field
PropertyTest(t) ==
  /\ lz.pc = "on" /\ lz.th[t].pc = "idle" /\ MayRun(t)
  /\ lz.reads < MaxLoadReads
  /\ lz' = [lz EXCEPT !.reads = @ + 1,
                      !.th[t].pc = IF FieldIsNone(t) THEN "construct"
                                   ELSE "return"]
  /\ LoadFrame

\* EmbeddingService(...) returns a new instance, or raises and the read of
\* the property raises with it
Construct(t) ==
  /\ lz.pc = "on" /\ lz.th[t].pc = "construct"
  /\ \E ok \in BOOLEAN :
       lz' = IF ok
             THEN [lz EXCEPT !.built = @ + 1,
                             !.th[t] = [pc |-> "assign", inst |-> lz.built + 1]]
             ELSE [lz EXCEPT !.th[t] = IdleReader]
  /\ LoadFrame

\* self._embedding_service = <the instance constructed>
Assign(t) ==
  /\ lz.pc = "on" /\ lz.th[t].pc = "assign"
  /\ lz' = [lz EXCEPT !.field = lz.th[t].inst, !.th[t].pc = "return"]
  /\ LoadFrame

\* return self._embedding_service
ReturnService(t) ==
  /\ lz.pc = "on" /\ lz.th[t].pc = "return"
  /\ lz' = [lz EXCEPT !.th[t] = [pc |-> "using", inst |-> lz.field]]
  /\ LoadFrame

\* the caller is done with the instance it was given (encode_text in
\* _handle_search, encode_batch in index_file)
Release(t) ==
  /\ lz.pc = "on" /\ lz.th[t].pc = "using"
  /\ lz' = [lz EXCEPT !.th[t] = IdleReader]
  /\ LoadFrame

\* _deferred_indexing: index_directory has returned, start_watching
StartWatching ==
  /\ lz.pc = "on" /\ ~lz.watching /\ lz.th["executor"].pc = "idle"
  /\ lz' = [lz EXCEPT !.watching = TRUE]
  /\ LoadFrame

NextLoad ==
  \/ \E t \in LoadThreads :
       \/ PropertyTest(t)
       \/ Construct(t)
       \/ Assign(t)
       \/ ReturnService(t)
       \/ Release(t)
  \/ StartWatching

SpecLoad == InitLoad /\ [][NextLoad]_vars

\* C27: one EmbeddingService at most is constructed, and the threads that
\* hold an instance hold the same one, the one the indexer's field names.
C27_LoadedOnce ==
  /\ lz.built <= 1
  /\ \A t \in LoadThreads : lz.th[t].pc = "using" => lz.th[t].inst = lz.field

(***************************************************************************)
(* SpecWatch: DocumentEventHandler (core/watcher.py).  The observer thread *)
(* delivers created and modified events to _schedule_event; every accepted *)
(* event starts a threading.Timer, whose thread runs                       *)
(* _process_pending_events and then the callbacks, outside the lock.  The  *)
(* callback is DocumentIndexer.handle_file_event, which calls index_file.  *)
(* The watcher is started when the initial index_directory has returned    *)
(* (server.py, _deferred_indexing), so the callbacks are the only calls of *)
(* index_file here.  The clock counts ticks; timestamps and the timers'    *)
(* waits are read off the one clock.                                       *)
(***************************************************************************)
\* Config.debounce_seconds, in ticks
DebounceSeconds == 2
\* events the observer delivers in one behaviour
MaxEvents == 2
\* the range of the clock
MaxTime == 4

\* the files the events are about: two documents and a file whose
\* extension is not allowed
WatchPaths == {"p1", "p2", "p4"}
EventTypes == {"created", "modified"}

\* DocumentEventHandler._categorize_document
CategorizeDocument(p) ==
  IF \E i \in 1..Len(VastKeywords) : Contains(LowerStr(PathStr(p)), VastKeywords[i])
  THEN "vast-data"
  ELSE "general-tech"

WatcherCategoryOf == [p \in WatchPaths |-> CategorizeDocument(p)]

NoArgs == [path |-> None, event_type |-> None, category |-> None]

InitWatch ==
  /\ fs = InitFiles
  /\ hstore = AbsentStore
  /\ hidx = Load(AbsentStore)
  /\ vs = EmptyStore
  /\ call = IdleCall
  /\ dir = IdleDir
  /\ snap = NoSnap
  /\ last = NoCall
  /\ dirty = FALSE
  /\ writes = 0
  /\ calls = 0
  /\ op = NoOp
  /\ clean = {}
  /\ ck = NoChunking
  /\ es = NoService
  /\ sr = NoSearch
  /\ lz = NoLoad
  /\ wt = [pc |-> "on", now |-> 0, nev |-> 0,
           pending |-> <<>>,   \* _pending_events, in the order of the dict
           timer |-> 0,        \* _debounce_timer: a timer's number, 0 for None
           timers |-> <<>>,    \* the timers started so far
           events |-> [p \in WatchPaths |-> 0],
           bursts |-> [p \in WatchPaths |-> 0],
           lastev |-> [p \in WatchPaths |-> 0],
           count |-> [p \in WatchPaths |-> 0],
           early |-> [p \in WatchPaths |-> FALSE],
           stopped |-> FALSE]  \* stop_watching has returned

WatchFrame ==
  UNCHANGED <<fs, hidx, hstore, vs, call, dir, snap, last, dirty, writes,
              calls, op, clean, ck, es, sr, lz>>

\* self._pending_events[str(file_path)] = (event, time.time()): a key the
\* dict holds keeps its place, a new key goes last
StorePending(pending, p, event_type, t) ==
  LET e == [path |-> p, event_type |-> event_type, ts |-> t]
  IN  IF \E i \in 1..Len(pending) : pending[i].path = p
      THEN [i \in 1..Len(pending) |->
              IF pending[i].path = p THEN e ELSE pending[i]]
      ELSE Append(pending, e)

\* Timer.cancel(): the timer does not run its function if its thread has
\* not yet woken from the wait
Cancel(timers, i) ==
  IF i = 0 THEN timers
  ELSE [timers EXCEPT ![i].st = IF @ = "waiting" THEN "cancelled" ELSE @]

\* the mutant of Elapsed: every pending event is taken
ElapsedAlways(timestamp, current_time) == TRUE

\* current_time - timestamp >= self.debounce_seconds
Elapsed(timestamp, current_time) == current_time - timestamp >= DebounceSeconds

\* the body of _schedule_event under the lock
ScheduleEvent(w, p, event_type) ==
  [w EXCEPT !.pending = StorePending(w.pending, p, event_type, w.now),
            !.timers = Append(Cancel(w.timers, w.timer),
                              [st |-> "waiting",
                               deadline |-> w.now + DebounceSeconds,
                               todo |-> <<>>, args |-> NoArgs,
                               late |-> FALSE]),
            !.timer = Len(w.timers) + 1]

\* on_created / on_modified for a file: an event on a path whose extension
\* is not allowed is dropped, any other is scheduled.  The event opens a
\* burst if the path had no event in the debounce_seconds before it.  Events
\* come while the clock leaves their timers the time to expire.
OnEvent(p, event_type) ==
  /\ wt.pc = "on" /\ wt.nev < MaxEvents /\ ~wt.stopped
  /\ wt.now + DebounceSeconds <= MaxTime
  /\ LET opens == \/ wt.events[p] = 0
                  \/ wt.now - wt.lastev[p] >= DebounceSeconds
         w == [wt EXCEPT !.nev = @ + 1,
                         !.events[p] = @ + 1,
                         !.bursts[p] = IF opens THEN @ + 1 ELSE @,
                         !.lastev[p] = wt.now]
     IN  wt' = IF AllowedPath[p] THEN ScheduleEvent(w, p, event_type) ELSE w
  /\ WatchFrame

\* on_deleted, and on_created / on_modified for a directory: the event is
\* logged or passed over
OnDroppedEvent(p, event_type, is_directory) ==
  /\ wt.pc = "on" /\ wt.nev < MaxEvents /\ ~wt.stopped
  /\ event_type = "deleted" \/ is_directory
  /\ wt' = [wt EXCEPT !.nev = @ + 1]
  /\ WatchFrame

\* DocumentIndexer.stop_watching, FileWatcher.stop: the observer is stopped
\* and joined; the handler's timers and its pending events are left alone
StopWatching ==
  /\ wt.pc = "on" /\ ~wt.stopped
  /\ wt' = [wt EXCEPT !.stopped = TRUE]
  /\ WatchFrame

\* time passes
Tick ==
  /\ wt.pc = "on" /\ wt.now < MaxTime
  /\ wt' = [wt EXCEPT !.now = @ + 1]
  /\ WatchFrame

\* Timer.run: the wait is over and the timer was not cancelled
TimerFire(i) ==
  /\ wt.pc = "on" /\ i \in 1..Len(wt.timers)
  /\ wt.timers[i].st = "waiting" /\ wt.now >= wt.timers[i].deadline
  /\ wt' = [wt EXCEPT !.timers[i].st = "woken"]
  /\ WatchFrame

\* _process_pending_events under the lock: the events whose debounce period
\* has passed leave the dict, the timer field is cleared
ProcessPendingEvents(i) ==
  /\ wt.pc = "on" /\ i \in 1..Len(wt.timers)
  /\ wt.timers[i].st = "woken"
  /\ LET Due(e) == Elapsed(e.ts, wt.now)
         Kept(e) == ~Elapsed(e.ts, wt.now)
         events_to_process == SelectSeq(wt.pending, Due)
     IN  wt' = [wt EXCEPT !.pending = SelectSeq(wt.pending, Kept),
                          !.timer = 0,
                          !.timers[i].todo = events_to_process,
                          !.timers[i].late = wt.stopped,
                          !.timers[i].st = IF events_to_process = <<>>
                                           THEN "done" ELSE "calling"]
  /\ WatchFrame

\* the loop outside the lock: the callback is called for the next event
CallbackStart(i) ==
  /\ wt.pc = "on" /\ i \in 1..Len(wt.timers)
  /\ wt.timers[i].st = "calling"
  /\ LET e == Head(wt.timers[i].todo)
     IN  wt' = [wt EXCEPT
                  !.timers[i].st = "callback",
                  !.timers[i].args = [path |-> e.path,
                                      event_type |-> e.event_type,
                                      category |-> WatcherCategoryOf[e.path]],
                  !.count[e.path] = @ + 1,
                  !.early[e.path] =
                     @ \/ wt.now - wt.lastev[e.path] < DebounceSeconds]
  /\ WatchFrame

\* the callback returns, or raises and the exception is logged
CallbackEnd(i) ==
  /\ wt.pc = "on" /\ i \in 1..Len(wt.timers)
  /\ wt.timers[i].st = "callback"
  /\ wt' = [wt EXCEPT !.timers[i].todo = Tail(@),
                      !.timers[i].args = NoArgs,
                      !.timers[i].st = IF Tail(wt.timers[i].todo) = <<>>
                                       THEN "done" ELSE "calling"]
  /\ WatchFrame

NextWatch ==
  \/ \E p \in WatchPaths, event_type \in EventTypes : OnEvent(p, event_type)
  \/ \E p \in WatchPaths, event_type \in EventTypes \cup {"deleted"},
        is_directory \in BOOLEAN :
       OnDroppedEvent(p, event_type, is_directory)
  \/ StopWatching
  \/ Tick
  \/ \E i \in 1..MaxEvents :
       \/ TimerFire(i)
       \/ ProcessPendingEvents(i)
       \/ CallbackStart(i)
       \/ CallbackEnd(i)

SpecWatch == InitWatch /\ [][NextWatch]_vars

\* the threads run and the clock advances
SpecWatchFair ==
  /\ SpecWatch
  /\ WF_vars(Tick)
  /\ \A i \in 1..MaxEvents :
       /\ WF_vars(TimerFire(i))
       /\ WF_vars(ProcessPendingEvents(i))
       /\ WF_vars(CallbackStart(i))
       /\ WF_vars(CallbackEnd(i))

\* the index_file calls in flight for a path: the timer threads inside the
\* callback for it
InFlight(p) ==
  {i \in 1..Len(wt.timers) :
     wt.timers[i].st = "callback" /\ wt.timers[i].args.path = p}

\* C25: at most one index_file call is in flight for a path.
C25_SingleWriter ==
  \A p \in WatchPaths : Cardinality(InFlight(p)) <= 1

\* no timer is waiting, woken or running callbacks
NoLiveTimer ==
  \A i \in 1..Len(wt.timers) : wt.timers[i].st \in {"cancelled", "done"}

\* the callback is never invoked more often for a path than the path had
\* bursts, and never for a path whose events are dropped; while the events
\* of a path form one burst the callback is not invoked before the burst
\* has settled; when every timer is through, a path that had events has had
\* its callback
OncePerBurst ==
  \A p \in WatchPaths :
    /\ wt.count[p] <= (IF AllowedPath[p] THEN wt.bursts[p] ELSE 0)
    /\ wt.bursts[p] = 1 => ~wt.early[p]
    /\ (NoLiveTimer /\ AllowedPath[p] /\ wt.bursts[p] >= 1) => wt.count[p] >= 1

\* C24: for a burst of created and modified events on one watched document,
\* consecutive events less than debounce_seconds apart, the callback is
\* invoked for the path exactly once, after the burst has settled, however
\* many events the burst had: never before, never twice, and eventually.
C24_DebounceOnce ==
  /\ []OncePerBurst
  /\ \A p \in {q \in WatchPaths : AllowedPath[q]} :
       (wt.bursts[p] >= 1) ~> (wt.count[p] >= 1)

\* a burst of two events or more on a document has settled, every timer is
\* through and the callback was invoked once for the path
C24_Witness ==
  \E p \in WatchPaths :
    /\ AllowedPath[p] /\ wt.events[p] >= 2 /\ wt.bursts[p] = 1
    /\ wt.count[p] = 1 /\ NoLiveTimer

(***************************************************************************)
(* Further properties of SemanticChunker (SpecChunk).                      *)
(***************************************************************************)
\* C31: under every pair (chunk_size, chunk_overlap) Config accepts,
\* chunk_document called on a document returns its list of chunks: the loop
\* of _chunk_text ends.
C31_ChunkerTerminates ==
  (ck.pc \notin {"new", "rejected", "ready"}) => ck.pc = "done"

\* the call handed the document's text to _chunk_text as one token stream
OneStream == ~(ck.document.format = "pdf" /\ ck.document.has_page_texts)

\* the tokens, by their place 1..n in the stream, of window k = 0, 1, ...
Window(k, n, cfg) ==
  {j \in 1..n :
     /\ k * (cfg.chunk_size - cfg.chunk_overlap) < j
     /\ j <= k * (cfg.chunk_size - cfg.chunk_overlap) + cfg.chunk_size}

\* the chunks returned are the sliding windows: chunk k is the text of
\* the tokens of window k, trimmed; there is a chunk for every window that
\* starts before the end of the stream and for no other
WindowsOf(chunks, tokens, cfg) ==
  LET n == Len(tokens)
      step == cfg.chunk_size - cfg.chunk_overlap
      Tokens(k) == [i \in 1..Cardinality(Window(k, n, cfg)) |-> tokens[k * step + i]]
  IN  /\ \A k \in 0..(Len(chunks) - 1) :
           /\ k * step < n
           /\ chunks[k + 1].text = Strip(Decode(Tokens(k)))
           /\ Cardinality(Window(k, n, cfg)) <= cfg.chunk_size
      /\ Len(chunks) * step >= n
      /\ \A k \in 0..(Len(chunks) - 2) :
           Cardinality(Window(k, n, cfg) \cap Window(k + 1, n, cfg))
             = Min(cfg.chunk_overlap, n - (k + 1) * step)
      /\ \A j \in 1..n : \E k \in 0..(Len(chunks) - 1) : j \in Window(k, n, cfg)

\* C32: for a token stream longer than chunk_size, _chunk_text returns the
\* chunks of the sliding window: chunk k is the decoded and trimmed tokens
\* [k*(chunk_size-chunk_overlap), k*(chunk_size-chunk_overlap)+chunk_size)
\* clipped to the end of the stream, for every k whose window starts before
\* the end; so a chunk has chunk_size tokens at most, consecutive chunks
\* share chunk_overlap tokens (fewer only where the stream ends), and every
\* token is in a chunk's window.
C32_SlidingWindow ==
  (ck.pc \in {"done", "hung"} /\ OneStream
     /\ TokenCount(ck.document) > ck.cfg.chunk_size)
    => /\ ck.pc = "done"
       /\ WindowsOf(ck.chunks, Encode(ck.document.text), ck.cfg)

\* what holds of C32: the lists that are returned are the windows
ReturnedAreWindows ==
  (ck.pc = "done" /\ OneStream
     /\ TokenCount(ck.document) > ck.cfg.chunk_size)
    => WindowsOf(ck.chunks, Encode(ck.document.text), ck.cfg)

\* C33: every chunk chunk_document returns, the only chunk of a short
\* document included, is labelled with the first header of the document's
\* header list that occurs in the chunk's text, and with none when no header
\* occurs in it.
C33_SectionAttribution ==
  ck.pc = "done"
    => \A i \in 1..Len(ck.chunks) :
         LET text == ck.chunks[i].text
             hits == {h \in 1..Len(ck.document.sections) :
                        Contains(text, ck.document.sections[h])}
         IN  ck.chunks[i].metadata.section
               = IF hits = {} THEN <<>>
                 ELSE ck.document.sections[CHOOSE h \in hits : \A g \in hits : h <= g]

(***************************************************************************)
(* Further properties of index_directory (SpecDir).                        *)
(***************************************************************************)
\* the outcomes with the given result among those of the call
CountOf(result) ==
  Cardinality({i \in 1..Len(dir.outcomes) : dir.outcomes[i] = result})

\* C34: the stats index_directory returns have total = indexed + skipped +
\* errors; total counts the listed entries that were regular files with an
\* allowed extension when the loop came to them, index_file was called once
\* with each of them, in sorted path order, and each call is counted in the
\* bucket of its outcome.
C34_StatsPartition ==
  dir.pc = "done"
    => /\ dir.stats.total
            = dir.stats.indexed + dir.stats.skipped + dir.stats.errors
       /\ dir.stats.total = Len(dir.passed)
       /\ \A i, j \in 1..Len(dir.passed) :
            i < j => PathLess(dir.passed[i], dir.passed[j])
       /\ {dir.passed[i] : i \in 1..Len(dir.passed)}
            = {dir.listed[i] : i \in 1..Len(dir.listed)}
                \ ({p \in Paths : ~AllowedPath[p]} \cup dir.nofile)
       /\ dir.stats.indexed = CountOf("True")
       /\ dir.stats.skipped = CountOf("False")
       /\ dir.stats.errors = CountOf("raise")

\* a call returned after it indexed a file, skipped a file and passed over
\* an entry whose extension is not allowed
C34_Witness ==
  /\ dir.pc = "done"
  /\ dir.stats.indexed >= 1
  /\ dir.stats.skipped >= 1
  /\ dir.stats.total >= 3
  /\ dir.stats.total < Len(dir.listed)

(***************************************************************************)
(* Further properties of the watcher (SpecWatch).                          *)
(***************************************************************************)
\* C36: the callback is not called for a path before debounce_seconds have
\* passed since the last created or modified event recorded for the path,
\* and is called only for a path that had such an event as a file with an
\* allowed extension: events for directories, deletions and files with
\* another extension lead to no call.
C36_QuietPeriod ==
  \A p \in WatchPaths :
    /\ ~wt.early[p]
    /\ wt.count[p] > 0 => AllowedPath[p] /\ wt.events[p] > 0

\* C37: once stop_watching has returned, no callback is started for an
\* event that was in _pending_events when it returned.
C37_NoDispatchAfterStop ==
  \A i \in 1..Len(wt.timers) :
    wt.timers[i].st = "callback" => ~wt.timers[i].late

(***************************************************************************)
(* SpecAges: the debounce state of DocumentEventHandler with the times     *)
(* kept relative to now, so that events may go on arriving for ever.  A    *)
(* pending event is kept by its age, the time since it was recorded, which *)
(* counts up to debounce_seconds; a waiting timer by the wait it has left  *)
(* and by whether _debounce_timer names it.  Timers that are alike are     *)
(* kept once, and a timer thread that has drained events is taken to call  *)
(* their callbacks in the same step.                                       *)
(***************************************************************************)
\* the documents the events are about
AgePaths == {"p1", "p2"}

InitAges ==
  /\ fs = InitFiles
  /\ hstore = AbsentStore
  /\ hidx = Load(AbsentStore)
  /\ vs = EmptyStore
  /\ call = IdleCall
  /\ dir = IdleDir
  /\ snap = NoSnap
  /\ last = NoCall
  /\ dirty = FALSE
  /\ writes = 0
  /\ calls = 0
  /\ op = NoOp
  /\ clean = {}
  /\ ck = NoChunking
  /\ es = NoService
  /\ sr = NoSearch
  /\ lz = NoLoad
  /\ wt = [pc |-> "ages",
           age |-> [p \in AgePaths |-> 0 - 1],   \* -1: no pending event
           timers |-> {},                        \* the timers that wait
           woken |-> FALSE,    \* a timer thread is about to take the lock
           called |-> [p \in AgePaths |-> FALSE],  \* since the path's last event
           quiet |-> [p \in AgePaths |-> FALSE]]   \* its events have stopped

\* _schedule_event for a document: the event is recorded with the time of
\* now, the timer _debounce_timer names is cancelled if it still waits, a
\* new timer is started and named
ScheduleAged(p) ==
  /\ wt.pc = "ages" /\ ~wt.quiet[p]
  /\ wt' = [wt EXCEPT !.age[p] = 0,
                      !.called[p] = FALSE,
                      !.timers = {t \in @ : ~t.ref}
                                   \cup {[left |-> DebounceSeconds, ref |-> TRUE]}]
  /\ WatchFrame

\* from now on no event arrives for the path
EventsStop(p) ==
  /\ wt.pc = "ages" /\ ~wt.quiet[p]
  /\ wt' = [wt EXCEPT !.quiet[p] = TRUE]
  /\ WatchFrame

\* time passes: the pending events age, the timers wait less
TickAged ==
  /\ wt.pc = "ages"
  /\ wt' = [wt EXCEPT
              !.age = [p \in AgePaths |->
                         IF wt.age[p] \in 0..(DebounceSeconds - 1)
                         THEN wt.age[p] + 1 ELSE wt.age[p]],
              !.timers = {[t EXCEPT !.left = IF @ > 0 THEN @ - 1 ELSE 0] : t \in @}]
  /\ wt' # wt
  /\ WatchFrame

\* Timer.run: a timer's wait is over and it was not cancelled
FireAged ==
  /\ wt.pc = "ages"
  /\ \E t \in wt.timers :
       /\ t.left = 0
       /\ wt' = [wt EXCEPT !.timers = @ \ {t}, !.woken = TRUE]
  /\ WatchFrame

\* _process_pending_events: the events that are debounce_seconds old leave
\* the dict and their callbacks are called; _debounce_timer is cleared
ProcessAged ==
  /\ wt.pc = "ages" /\ wt.woken
  /\ LET due == {p \in AgePaths : wt.age[p] >= 0
                                    /\ Elapsed(0 - wt.age[p], 0)}
     IN  wt' = [wt EXCEPT
                  !.age = [p \in AgePaths |-> IF p \in due THEN 0 - 1 ELSE @[p]],
                  !.called = [p \in AgePaths |-> @[p] \/ p \in due],
                  !.timers = {[t EXCEPT !.ref = FALSE] : t \in @},
                  !.woken = FALSE]
  /\ WatchFrame

NextAges ==
  \/ \E p \in AgePaths : ScheduleAged(p) \/ EventsStop(p)
  \/ TickAged
  \/ FireAged
  \/ ProcessAged

\* the clock advances and the timer threads run; a timer whose wait is over
\* again and again is not cancelled at the last moment every time
SpecAges ==
  /\ InitAges /\ [][NextAges]_vars
  /\ WF_vars(TickAged) /\ SF_vars(FireAged) /\ WF_vars(ProcessAged)

\* C35: a pending event always has a timer that waits or a timer thread
\* about to process it, and once the events for a document have stopped,
\* its pending event is drained and its callback called, whatever events
\* arrive for other paths.
C35_WatcherProgress ==
  /\ [](\A p \in AgePaths :
          wt.age[p] >= 0 => wt.timers # {} \/ wt.woken)
  /\ \A p \in AgePaths :
       (wt.quiet[p] /\ wt.age[p] >= 0) ~> (wt.age[p] < 0 /\ wt.called[p])

(***************************************************************************)
(* EmbeddingService shared by two threads (SpecShared): the event loop     *)
(* answers search_docs with encode_text (server.py, _handle_search) while  *)
(* the executor thread that runs index_directory calls encode_batch.  The  *)
(* service has no lock, so the threads interleave between the statements   *)
(* of encode_text, encode_batch and _add_to_cache; each action below is    *)
(* one access to self._cache.  A thread whose call raised has the          *)
(* exception in err.                                                       *)
(***************************************************************************)
CacheThreads == {"query", "index"}

IdleCaller ==
  [pc |-> "idle", op |-> None, texts |-> <<>>, i |-> 1, unc |-> <<>>, k |-> 1,
   first_key |-> None, err |-> None]

\* EmbeddingService(): the cache is empty and no call runs
InitShared ==
  /\ fs = InitFiles
  /\ hstore = AbsentStore
  /\ hidx = Load(AbsentStore)
  /\ vs = EmptyStore
  /\ call = IdleCall
  /\ dir = IdleDir
  /\ snap = NoSnap
  /\ last = NoCall
  /\ dirty = FALSE
  /\ writes = 0
  /\ calls = 0
  /\ op = NoOp
  /\ clean = {}
  /\ ck = NoChunking
  /\ es = [pc |-> "shared", cache |-> <<>>, n |-> 0,
           th |-> [t \in CacheThreads |-> IdleCaller]]
  /\ sr = NoSearch
  /\ lz = NoLoad
  /\ wt = NoWatch

\* the thread after the i-th text of its list has been looked up: the loop
\* of encode_batch goes on, and after it the uncached texts are encoded, if
\* there are any
AfterLookup(c) ==
  IF c.i < Len(c.texts) THEN [c EXCEPT !.pc = "check", !.i = @ + 1]
  ELSE IF c.unc # <<>> THEN [c EXCEPT !.pc = "encode"]
  ELSE [c EXCEPT !.pc = "idle"]

\* the event loop calls encode_text(text)
SharedEncodeText(text) ==
  /\ es.pc = "shared"
  /\ es.n < MaxEmbedOps
  /\ es.th["query"].pc = "idle"
  /\ es' = [es EXCEPT !.n = @ + 1,
                      !.th["query"] = [IdleCaller EXCEPT !.pc = "check",
                                                         !.op = "encode_text",
                                                         !.texts = <<text>>]]
  /\ EmbedFrame

\* the indexing thread calls encode_batch(texts)
SharedEncodeBatch(texts) ==
  /\ es.pc = "shared"
  /\ es.n < MaxEmbedOps
  /\ es.th["index"].pc = "idle"
  /\ es' = [es EXCEPT !.n = @ + 1,
                      !.th["index"] = [IdleCaller EXCEPT
                                         !.pc = IF texts = <<>> THEN "idle" ELSE "check",
                                         !.op = "encode_batch",
                                         !.texts = texts]]
  /\ EmbedFrame

\* `if text in self._cache`
CheckCache(t) ==
  /\ es.pc = "shared"
  /\ es.th[t].pc = "check"
  /\ LET c == es.th[t]
     IN  es' = [es EXCEPT !.th[t] =
                  IF c.texts[c.i] \in CacheKeys(es.cache)
                  THEN [c EXCEPT !.pc = "read"]
                  ELSE IF c.op = "encode_text"
                  THEN [c EXCEPT !.pc = "encode", !.unc = <<c.i>>]
                  ELSE AfterLookup([c EXCEPT !.unc = Append(@, c.i)])]
  /\ EmbedFrame

\* `self._cache[text]` after the test: a KeyError when the key has gone
ReadCache(t) ==
  /\ es.pc = "shared"
  /\ es.th[t].pc = "read"
  /\ LET c == es.th[t]
     IN  es' = [es EXCEPT !.th[t] =
                  IF c.texts[c.i] \notin CacheKeys(es.cache)
                  THEN [c EXCEPT !.pc = "idle", !.err = "KeyError"]
                  ELSE IF c.op = "encode_text"
                  THEN [c EXCEPT !.pc = "idle"]
                  ELSE AfterLookup(c)]
  /\ EmbedFrame

\* self._model.encode
EncodeUncached(t) ==
  /\ es.pc = "shared"
  /\ es.th[t].pc = "encode"
  /\ es' = [es EXCEPT !.th[t].pc = "len", !.th[t].k = 1]
  /\ EmbedFrame

\* _add_to_cache: `if len(self._cache) >= self.cache_size`
CheckFull(t) ==
  /\ es.pc = "shared"
  /\ es.th[t].pc = "len"
  /\ es' = [es EXCEPT !.th[t].pc =
              IF Len(es.cache) >= CacheSize THEN "first" ELSE "insert"]
  /\ EmbedFrame

\* _add_to_cache: `first_key = next(iter(self._cache))`
FirstKey(t) ==
  /\ es.pc = "shared"
  /\ es.th[t].pc = "first"
  /\ es' = [es EXCEPT !.th[t] =
              IF es.cache = <<>>
              THEN [@ EXCEPT !.pc = "idle", !.err = "StopIteration"]
              ELSE [@ EXCEPT !.pc = "del", !.first_key = es.cache[1].text]]
  /\ EmbedFrame

\* _add_to_cache: `del self._cache[first_key]`
DelFirstKey(t) ==
  /\ es.pc = "shared"
  /\ es.th[t].pc = "del"
  /\ LET c == es.th[t]
     IN  IF c.first_key \notin CacheKeys(es.cache)
         THEN es' = [es EXCEPT !.th[t] = [c EXCEPT !.pc = "idle", !.err = "KeyError"]]
         ELSE es' = [es EXCEPT !.cache = SelectSeq(@, LAMBDA e : e.text # c.first_key),
                               !.th[t] = [c EXCEPT !.pc = "insert"]]
  /\ EmbedFrame

\* _add_to_cache: `self._cache[text] = embedding`, and the return to the
\* caller: encode_text returns, the second loop of encode_batch goes on
SetItem(t) ==
  /\ es.pc = "shared"
  /\ es.th[t].pc = "insert"
  /\ LET c == es.th[t]
         text == c.texts[c.unc[c.k]]
         item == [text |-> text, emb |-> ModelEncode(text)]
     IN  es' = [es EXCEPT
                  !.cache = IF text \in CacheKeys(@)
                            THEN [j \in 1..Len(@) |->
                                    IF @[j].text = text THEN item ELSE @[j]]
                            ELSE Append(@, item),
                  !.th[t] = IF c.k < Len(c.unc)
                            THEN [c EXCEPT !.pc = "len", !.k = @ + 1]
                            ELSE [c EXCEPT !.pc = "idle"]]
  /\ EmbedFrame

NextShared ==
  \/ \E text \in EmbedTexts : SharedEncodeText(text)
  \/ \E texts \in EmbedBatches : SharedEncodeBatch(texts)
  \/ \E t \in CacheThreads :
       \/ CheckCache(t)
       \/ ReadCache(t)
       \/ EncodeUncached(t)
       \/ CheckFull(t)
       \/ FirstKey(t)
       \/ DelFirstKey(t)
       \/ SetItem(t)

SpecShared == InitShared /\ [][NextShared]_vars

(***************************************************************************)
(* Properties of the shared EmbeddingService (SpecShared).                 *)
(***************************************************************************)
\* C38: while encode_text and encode_batch run concurrently on the shared
\* service, the cache never holds more than cache_size items and neither
\* call raises because of what the other did to the cache in between.
C38_CacheSafe ==
  es.pc = "shared" =>
    /\ Len(es.cache) <= CacheSize
    /\ \A t \in CacheThreads : es.th[t].err = None

\* the two halves of C38, each on its own
C38_SizeBound == es.pc = "shared" => Len(es.cache) <= CacheSize
C38_NoRaise == es.pc = "shared" => \A t \in CacheThreads : es.th[t].err = None
====
